---- MODULE Spec2Model ----
(***************************************************************************)
(* A model of neilotoole/lg: the lg.Log facade, its adapters (discard,     *)
(* loglg, zaplg, sloglg) and the testlg test-capture adapter.              *)
(*                                                                         *)
(* Log instances live in a heap (logs); the backing arrays of their kvs    *)
(* slices live in a second heap (arrays), so that two slices sharing one   *)
(* array are visible as such; writers (bytes.Buffer) live in a third       *)
(* (bufs).  Bytes are modelled as tokens: one string per byte or per       *)
(* encoder-produced field.                                                 *)
(***************************************************************************)
EXTENDS Integers, Sequences, FiniteSets, TLC

VARIABLES
    logs,       \* heap of Log instances (index = identity of the pointer)
    arrays,     \* heap of []keyVal backing arrays
    bufs,       \* heap of writers (bytes.Buffer): each a sequence of tokens
    sink,       \* the testing.TB: the sequence of reported entries
    failed,     \* testing.TB: whether t.Error has marked the test failed
    fnCalls,    \* how many times a callback passed to WarnIfFuncError ran
    closeCalls, \* how many times Close ran on a closer passed to WarnIfCloseError
    thr,        \* per thread: the position inside a testlg method
    ncalls,     \* number of method calls started so far
    hist,       \* ghost: per instance, the With calls that derived it
    last        \* ghost: summary of the operation that returned last

vars == <<logs, arrays, bufs, sink, failed, fnCalls, closeCalls, thr, ncalls, hist, last>>

----------------------------------------------------------------------------
(* Bounds *)

MaxLogs == 4
MaxCalls == 2

Keys == {"k1", "k2"}
Vals == {"v1", "v2"}
Skips == {1, 2}
Threads == {"t1", "t2"}

----------------------------------------------------------------------------
(* Slices *)

\* The nil slice: a fresh Log has kvs == nil.
NilArray == 0

\* The contents of the slice whose backing array is a.
Slice(arrs, a) == IF a = NilArray THEN <<>> ELSE arrs[a]

keyVal(key, val) == [k |-> key, v |-> val]

\* The loop of With: the index of the first kv with the key, or -1.
keyIndex(kvs, key) ==
    IF \E i \in 1..Len(kvs) : kvs[i].k = key
    THEN CHOOSE i \in 1..Len(kvs) :
            /\ kvs[i].k = key
            /\ \A j \in 1..(i - 1) : kvs[j].k # key
    ELSE -1

\* make + copy + append at the end (key does not exist).
kvsAppended(kvs, key, val) ==
    [i \in 1..(Len(kvs) + 1) |-> IF i <= Len(kvs) THEN kvs[i] ELSE keyVal(key, val)]

\* make + copy + set the val of the existing key.
kvsReplaced(kvs, idx, val) ==
    [i \in 1..Len(kvs) |-> IF i = idx THEN [kvs[i] EXCEPT !.v = val] ELSE kvs[i]]

\* Mutant of withKvs: the key lookup is skipped and the field always appended.
withKvs_alwaysAppend(kvs, key, val) == Append(kvs, keyVal(key, val))

\* The []keyVal that With builds from the receiver's kvs.
withKvs(kvs, key, val) ==
    IF keyIndex(kvs, key) = -1
    THEN kvsAppended(kvs, key, val)
    ELSE kvsReplaced(kvs, keyIndex(kvs, key), val)

----------------------------------------------------------------------------
(* zap.Logger / zap.SugaredLogger values (immutable: every option or With
   returns a clone). *)

\* zap.New(core) followed by WithOptions(AddCaller(), AddCallerSkip(n)) if caller.
zapNew(w, format, level, caller, addCallerSkip) ==
    [w |-> w, format |-> format, level |-> level, caller |-> caller,
     skip |-> IF caller THEN addCallerSkip ELSE 0,
     fields |-> <<>>]

\* SugaredLogger.With(args...): zap appends the fields; duplicates are kept.
zapWith(z, kvs) == [z EXCEPT !.fields = @ \o kvs]

\* Logger.WithOptions(zap.AddCallerSkip(n)).
zapAddCallerSkip(z, n) == [z EXCEPT !.skip = @ + n]

----------------------------------------------------------------------------
(* zaplg *)

\* zaplg.NewWith: &Log{SugaredLogger: sugarLogger, proto: logger}.
zaplg_NewWith(w, format, level, caller, addCallerSkip) ==
    [kind |-> "zaplg",
     z |-> zapNew(w, format, level, caller, addCallerSkip),
     proto |-> zapNew(w, format, level, caller, addCallerSkip),
     kvs |-> NilArray,
     callerSkip |-> 0]

\* The SugaredLogger of the Log that With returns.
zaplg_WithImpl(l, kvs, key, val) ==
    IF keyIndex(kvs, key) = -1
    THEN zapWith(l.z, <<keyVal(key, val)>>)
    ELSE zapWith(zapAddCallerSkip(l.proto, l.callerSkip), withKvs(kvs, key, val))

\* zaplg.Log.With, given the array a that holds the new kvs.
zaplg_WithLog(l, kvs, key, val, a) ==
    [kind |-> "zaplg",
     z |-> zaplg_WithImpl(l, kvs, key, val),
     proto |-> l.proto,
     kvs |-> a,
     callerSkip |-> l.callerSkip]

\* zaplg.Log.AddCallerSkip: the slice l.kvs is shared with the receiver.
zaplg_AddCallerSkipLog(l, skip) ==
    [kind |-> "zaplg",
     z |-> zapAddCallerSkip(l.z, skip),
     proto |-> l.proto,
     kvs |-> l.kvs,
     callerSkip |-> l.callerSkip + skip]

\* Mutant of zaplg_With: the existing-key branch sets the val in l.kvs itself
\* instead of in a copy.
zaplg_With_inPlace(arrs, l, key, val) ==
    IF keyIndex(Slice(arrs, l.kvs), key) = -1
    THEN [arrays |-> Append(arrs, withKvs(Slice(arrs, l.kvs), key, val)),
          log |-> zaplg_WithLog(l, Slice(arrs, l.kvs), key, val, Len(arrs) + 1)]
    ELSE [arrays |-> [arrs EXCEPT ![l.kvs] = withKvs(Slice(arrs, l.kvs), key, val)],
          log |-> zaplg_WithLog(l, Slice(arrs, l.kvs), key, val, l.kvs)]

\* zaplg.Log.With: the Log it returns and the heap of arrays afterwards
\* (the new kvs is a fresh array in both branches).
zaplg_With(arrs, l, key, val) ==
    [arrays |-> Append(arrs, withKvs(Slice(arrs, l.kvs), key, val)),
     log |-> zaplg_WithLog(l, Slice(arrs, l.kvs), key, val, Len(arrs) + 1)]

----------------------------------------------------------------------------
(* testlg *)

Factories == {"zaplg.TestingFactoryFn", "zaplg.json"}

\* Mutant of factoryFn: the backend is built with no additional caller skip.
factoryFn_noSkip(name, w) ==
    IF name = "zaplg.TestingFactoryFn"
    THEN zaplg_NewWith(w, "testing", TRUE, TRUE, 0)
    ELSE zaplg_NewWith(w, "json", TRUE, TRUE, 0)

\* The factory funcs handed to testlg.NewWith: zaplg.TestingFactoryFn, and
\* the func of zaplg's TestNewWith (json, caller, one unit of caller skip).
factoryFn(name, w) ==
    IF name = "zaplg.TestingFactoryFn"
    THEN zaplg_NewWith(w, "testing", TRUE, TRUE, 1)
    ELSE zaplg_NewWith(w, "json", TRUE, TRUE, 1)

\* testlg.NewWith (the version with With): an empty buffer b, impl on it.
testlg_NewWith(fn, b) ==
    [kind |-> "testlg", t |-> "t", ver |-> 2, strict |-> FALSE, mu |-> "free",
     impl |-> factoryFn(fn, b), buf |-> b, factoryFn |-> fn, kvs |-> NilArray]

\* The loop "for _, kv := range kvs { impl = impl.With(kv.k, kv.v) }":
\* implKvs is the contents of impl's own kvs slice.
RECURSIVE implWithAll(_, _, _, _)
implWithAll(impl, implKvs, kvs, i) ==
    IF i > Len(kvs)
    THEN [log |-> impl, kvs |-> implKvs]
    ELSE implWithAll(zaplg_WithLog(impl, implKvs, kvs[i].k, kvs[i].v, NilArray),
                     withKvs(implKvs, kvs[i].k, kvs[i].v), kvs, i + 1)

\* Mutant of testlg_With: the child is built on the receiver's buffer.
testlg_With_sharedBuf(arrs, bfs, l, key, val) ==
    LET kvs == withKvs(Slice(arrs, l.kvs), key, val)
        b == l.buf
        built == implWithAll(factoryFn(l.factoryFn, b), <<>>, kvs, 1)
    IN  [arrays |-> arrs \o <<kvs, built.kvs>>,
         bufs |-> Append(bfs, <<>>),
         log |-> [kind |-> "testlg", t |-> l.t, ver |-> 2, strict |-> FALSE, mu |-> "free",
                  impl |-> [built.log EXCEPT !.kvs = Len(arrs) + 2],
                  buf |-> b, factoryFn |-> l.factoryFn, kvs |-> Len(arrs) + 1]]

\* testlg.Log.With: the Log it returns, and the heaps afterwards: a new
\* array for the merged kvs, one for the kvs of the new impl, a new buffer.
testlg_With(arrs, bfs, l, key, val) ==
    LET kvs == withKvs(Slice(arrs, l.kvs), key, val)
        b == Len(bfs) + 1
        built == implWithAll(factoryFn(l.factoryFn, b), <<>>, kvs, 1)
    IN  [arrays |-> arrs \o <<kvs, built.kvs>>,
         bufs |-> Append(bfs, <<>>),
         log |-> [kind |-> "testlg", t |-> l.t, ver |-> 2, strict |-> FALSE, mu |-> "free",
                  impl |-> [built.log EXCEPT !.kvs = Len(arrs) + 2],
                  buf |-> b, factoryFn |-> l.factoryFn, kvs |-> Len(arrs) + 1]]

----------------------------------------------------------------------------
(* Ghost state *)

Idle == [pc |-> "idle"]

\* The summary of a returned With / AddCallerSkip.
Derived(op, recv, ret) == [op |-> op, recv |-> recv, ret |-> ret, call |-> 0]

NoOp == [op |-> "none", recv |-> 0, call |-> 0]

----------------------------------------------------------------------------
(* Derivation: With and AddCallerSkip *)

ZaplgWith(i, key, val) ==
    /\ logs[i].kind = "zaplg"
    /\ Len(logs) < MaxLogs
    /\ LET r == zaplg_With(arrays, logs[i], key, val)
       IN  /\ logs' = Append(logs, r.log)
           /\ arrays' = r.arrays
    /\ hist' = Append(hist, Append(hist[i], keyVal(key, val)))
    /\ last' = Derived("With", i, Len(logs) + 1)
    /\ UNCHANGED <<bufs, sink, failed, fnCalls, closeCalls, thr, ncalls>>

ZaplgAddCallerSkip(i, skip) ==
    /\ logs[i].kind = "zaplg"
    /\ Len(logs) < MaxLogs
    /\ logs' = Append(logs, zaplg_AddCallerSkipLog(logs[i], skip))
    /\ hist' = Append(hist, hist[i])
    /\ last' = Derived("AddCallerSkip", i, Len(logs) + 1)
    /\ UNCHANGED <<arrays, bufs, sink, failed, fnCalls, closeCalls, thr, ncalls>>

TestlgWith(i, key, val) ==
    /\ logs[i].kind = "testlg"
    /\ logs[i].ver = 2
    /\ Len(logs) < MaxLogs
    /\ LET r == testlg_With(arrays, bufs, logs[i], key, val)
       IN  /\ logs' = Append(logs, r.log)
           /\ arrays' = r.arrays
           /\ bufs' = r.bufs
    /\ hist' = Append(hist, Append(hist[i], keyVal(key, val)))
    /\ last' = Derived("With", i, Len(logs) + 1)
    /\ UNCHANGED <<sink, failed, fnCalls, closeCalls, thr, ncalls>>

\* The state after construction of one root Log on buffer 1.
InitRoot(root) ==
    /\ logs = <<root>>
    /\ arrays = <<>>
    /\ bufs = << <<>> >>
    /\ sink = <<>>
    /\ failed = FALSE
    /\ fnCalls = 0
    /\ closeCalls = 0
    /\ thr = [t \in Threads |-> Idle]
    /\ ncalls = 0
    /\ hist = << <<>> >>
    /\ last = NoOp

Init ==
    \E root \in {zaplg_NewWith(1, f, TRUE, c, s) :
                    f \in {"text", "json"}, c \in BOOLEAN, s \in {0, 1}}
                \cup {testlg_NewWith(fn, 1) : fn \in Factories} :
        InitRoot(root)

Next ==
    \/ \E i \in 1..Len(logs), key \in Keys, val \in Vals : ZaplgWith(i, key, val)
    \/ \E i \in 1..Len(logs), skip \in Skips : ZaplgAddCallerSkip(i, skip)
    \/ \E i \in 1..Len(logs), key \in Keys, val \in Vals : TestlgWith(i, key, val)

Spec == Init /\ [][Next]_vars

----------------------------------------------------------------------------
(* Messages, errors, callbacks *)

\* Message texts, one token per byte.
Msgs == {<<"a">>, <<"b", "\n">>}

\* The messages of errors: an error's text may hold a percent sign.
ErrMsgs == Msgs \cup {<<"%", "d">>}

nil == [nil |-> TRUE]

\* errors.New(msg).
Errs == {[nil |-> FALSE, msg |-> m] : m \in ErrMsgs}

\* func() error values and io.Closer values: nil, or one returning nil or an error.
Fns == {nil} \cup {[nil |-> FALSE, ret |-> e] : e \in Errs \cup {nil}}

\* fmt.Sprintf(format) with no operands: %% is a percent sign, a verb has
\* no operand (MISSING), a lone % at the end has no verb (NOVERB).
RECURSIVE Sprintf(_)
Sprintf(format) ==
    IF format = <<>> THEN <<>>
    ELSE IF Head(format) # "%" THEN <<Head(format)>> \o Sprintf(Tail(format))
    ELSE IF Len(format) = 1 THEN <<"%!(NOVERB)">>
    ELSE IF format[2] = "%" THEN <<"%">> \o Sprintf(Tail(Tail(format)))
    ELSE <<"%!", format[2], "(MISSING)">> \o Sprintf(Tail(Tail(format)))

LeveledMethods == {"Debug", "Debugf", "Warn", "Warnf", "Error", "Errorf"}

WarnIfMethods == {"WarnIfError", "WarnIfFuncError", "WarnIfCloseError"}

LevelOf(m) ==
    IF m \in {"Debug", "Debugf"} THEN "DEBUG"
    ELSE IF m \in {"Error", "Errorf"} THEN "ERROR"
    ELSE "WARN"

\* The message a method formats: Sprintf of the format for Debugf, Warnf and
\* Errorf, Sprint of the one operand otherwise.
messageOf(m, msg) ==
    IF m \in {"Debugf", "Warnf", "Errorf"} THEN Sprintf(msg) ELSE msg

\* One emitted entry: the level and message handed to the backend, and the
\* bytes the backend wrote for it.
Line(level, msg, bytes) == [level |-> level, msg |-> msg, bytes |-> bytes]

\* What one method call does: the entries it emits, how often it invokes
\* the func and the closer it was given.
Effect(lines, fn, close) == [lines |-> lines, fn |-> fn, close |-> close]

NoEffect == Effect(<<>>, 0, 0)

\* The frame a logger reports: skip 0 is the first frame of stack.
FrameAt(stack, skip) ==
    IF skip < Len(stack) THEN stack[skip + 1] ELSE "runtime"

----------------------------------------------------------------------------
(* discard *)

\* lg.Discard(): discardLog{}.
discard_New == [kind |-> "discard"]

\* discardLog.Debug, Warn, Error.
discard_Leveled(l, m, msg) == NoEffect

\* discardLog.Err.
discard_Err(l, err) == NoEffect

\* discardLog.WarnIfError.
discard_WarnIfError(l, err) == NoEffect

\* Mutant of discard_WarnIfFuncError: fn is not run.
discard_WarnIfFuncError_skips(l, fn) == NoEffect

\* discardLog.WarnIfFuncError: if fn != nil { _ = fn() }.
discard_WarnIfFuncError(l, fn) ==
    IF ~fn.nil THEN Effect(<<>>, 1, 0) ELSE NoEffect

\* Mutant of discard_WarnIfCloseError: Close is not called.
discard_WarnIfCloseError_skips(l, c) == NoEffect

\* discardLog.WarnIfCloseError: if c != nil { _ = c.Close() }.
discard_WarnIfCloseError(l, c) ==
    IF ~c.nil THEN Effect(<<>>, 0, 1) ELSE NoEffect

\* discardLog.With.
discard_With(l, key, val) == discard_New

----------------------------------------------------------------------------
(* loglg *)

\* const callDepth = 2
callDepth == 2

\* loglg.NewWith: log.New(w, "", flag) with Ltime|Lmicroseconds and Lshortfile.
loglg_NewWith(w, timestamp, level, caller) ==
    [kind |-> "loglg",
     impl |-> [w |-> w, time |-> timestamp, shortfile |-> caller],
     hasPrefix |-> (timestamp \/ caller),
     level |-> level]

\* fmt.Sprintf("%-5s\t", level): the level padded to five, then a tab.
padLevel(level) == <<IF level = "WARN" THEN "WARN " ELSE level, "\t">>

\* What sprint and sprintf write before the message.
loglg_prefix(l, level) ==
    (IF l.hasPrefix THEN <<"\t">> ELSE <<>>)
    \o (IF l.level THEN padLevel(level) ELSE <<>>)

\* Log.sprintf with no operands after the format.
loglg_sprintf(l, level, format) == loglg_prefix(l, level) \o Sprintf(format)

\* Log.sprint of one operand.
loglg_sprint(l, level, msg) == loglg_prefix(l, level) \o msg

\* log.Logger.Output(calldepth, s): the header, s, and a newline if s does
\* not end in one.  calldepth 1 is the caller of Output.
logOutput(impl, stack, calldepth, s) ==
    (IF impl.time THEN <<"<time>">> ELSE <<>>)
    \o (IF impl.shortfile THEN <<FrameAt(stack, calldepth - 1)>> ELSE <<>>)
    \o s
    \o (IF s # <<>> /\ s[Len(s)] = "\n" THEN <<>> ELSE <<"\n">>)

\* The frames from the loglg method outwards.
loglgStack == <<"loglg", "user">>

\* Log.Debug, Debugf, Warn, Warnf, Error, Errorf.
loglg_Leveled(l, m, msg) ==
    Effect(<<Line(LevelOf(m), messageOf(m, msg),
                  logOutput(l.impl, loglgStack, callDepth,
                            IF m \in {"Debugf", "Warnf", "Errorf"}
                            THEN loglg_sprintf(l, LevelOf(m), msg)
                            ELSE loglg_sprint(l, LevelOf(m), msg)))>>, 0, 0)

\* l.impl.Output(callDepth, l.sprintf("WARN", err.Error())): the error's text
\* is the format.
loglg_warn(l, err) ==
    Line("WARN", Sprintf(err.msg),
         logOutput(l.impl, loglgStack, callDepth, loglg_sprintf(l, "WARN", err.msg)))

loglg_WarnIfError(l, err) ==
    IF err.nil THEN NoEffect ELSE Effect(<<loglg_warn(l, err)>>, 0, 0)

loglg_WarnIfFuncError(l, fn) ==
    IF fn.nil THEN NoEffect
    ELSE IF fn.ret.nil THEN Effect(<<>>, 1, 0)
    ELSE Effect(<<loglg_warn(l, fn.ret)>>, 1, 0)

loglg_WarnIfCloseError(l, c) ==
    IF c.nil THEN NoEffect
    ELSE IF c.ret.nil THEN Effect(<<>>, 0, 1)
    ELSE Effect(<<loglg_warn(l, c.ret)>>, 0, 1)

----------------------------------------------------------------------------
(* Emission by zap; the methods of zaplg *)

\* CapitalLevelEncoder for text and testing, LowercaseLevelEncoder otherwise.
zapLevel(format, lvl) ==
    IF format \in {"text", "testing"} THEN lvl
    ELSE IF lvl = "DEBUG" THEN "debug"
    ELSE IF lvl = "WARN" THEN "warn"
    ELSE "error"

RECURSIVE fieldTokens(_)
fieldTokens(kvs) ==
    IF kvs = <<>> THEN <<>>
    ELSE <<Head(kvs).k, Head(kvs).v>> \o fieldTokens(Tail(kvs))

\* A string inside a JSON document: the newline is escaped.
jsonEscape(msg) == [i \in 1..Len(msg) |-> IF msg[i] = "\n" THEN "\\n" ELSE msg[i]]

\* The bytes of one entry: level, caller, message, fields, line ending.
zapEncode(z, lvl, stack, msg) ==
    (IF z.level THEN <<zapLevel(z.format, lvl)>> ELSE <<>>)
    \o (IF z.caller THEN <<FrameAt(stack, z.skip)>> ELSE <<>>)
    \o (IF z.format = "json" THEN jsonEscape(msg) ELSE msg)
    \o fieldTokens(z.fields) \o <<"\n">>

\* The embedded SugaredLogger's Debug, Debugf, Warn, Warnf, Error, Errorf,
\* called from the first frame of stack.
zaplg_line(l, m, msg, stack) ==
    Line(LevelOf(m), messageOf(m, msg),
         zapEncode(l.z, LevelOf(m), stack, messageOf(m, msg)))

zaplg_Leveled(l, m, msg) == Effect(<<zaplg_line(l, m, msg, <<"user">>)>>, 0, 0)

\* logger := l.Desugar().WithOptions(zap.AddCallerSkip(1)); logger.Warn(err.Error())
zaplg_warn(l, err) ==
    Line("WARN", err.msg,
         zapEncode(zapAddCallerSkip(l.z, 1), "WARN", <<"zaplg", "user">>, err.msg))

\* Mutant of zaplg_WarnIfError: the nil check is missing.
zaplg_WarnIfError_noNilCheck(l, err) ==
    Effect(<<zaplg_warn(l, IF err.nil THEN [nil |-> FALSE, msg |-> <<"<nil>">>] ELSE err)>>,
           0, 0)

zaplg_WarnIfError(l, err) ==
    IF err.nil THEN NoEffect ELSE Effect(<<zaplg_warn(l, err)>>, 0, 0)

zaplg_WarnIfFuncError(l, fn) ==
    IF fn.nil THEN NoEffect
    ELSE IF fn.ret.nil THEN Effect(<<>>, 1, 0)
    ELSE Effect(<<zaplg_warn(l, fn.ret)>>, 1, 0)

zaplg_WarnIfCloseError(l, c) ==
    IF c.nil THEN NoEffect
    ELSE IF c.ret.nil THEN Effect(<<>>, 0, 1)
    ELSE Effect(<<zaplg_warn(l, c.ret)>>, 0, 1)

----------------------------------------------------------------------------
(* sloglg *)

\* sloglg.NewWith for format "text" or "json": a text or JSON handler on w.
\* HandlerOptions is built from caller alone; level is not read (wantLevel
\* is a ghost: the level argument the Log was built with).
sloglg_NewWith(w, format, level, caller, addCallerSkip) ==
    [kind |-> "sloglg",
     h |-> [w |-> w, format |-> format, source |-> caller, attrs |-> <<>>,
            wantLevel |-> level],
     addCallerSkip |-> addCallerSkip]

\* The text handler quotes a string that holds a byte unsafe in a bare value.
needsQuoting(msg) == msg = <<>> \/ \E i \in 1..Len(msg) : msg[i] \in {"\n", " ", "=", "\""}

slogQuote(msg) == <<"\"">> \o jsonEscape(msg) \o <<"\"">>

\* The bytes of one record: time, level, source, message, attrs, line ending.
slogEncode(h, lvl, stack, depth, msg) ==
    <<"<time>", lvl>>
    \o (IF h.source THEN <<FrameAt(stack, depth)>> ELSE <<>>)
    \o (IF h.format = "json" \/ needsQuoting(msg) THEN slogQuote(msg) ELSE msg)
    \o fieldTokens(h.attrs) \o <<"\n">>

\* The embedded slog.Logger's Debug and Warn; Log.Error with
\* LogDepth(2+l.addCallerSkip, ...), depth 0 being the caller of LogDepth.
sloglg_Leveled(l, m, msg) ==
    Effect(<<Line(LevelOf(m), msg,
                  IF m = "Error"
                  THEN slogEncode(l.h, "ERROR", <<"sloglg", "user">>, 2 + l.addCallerSkip, msg)
                  ELSE slogEncode(l.h, LevelOf(m), <<"user">>, 0, msg))>>, 0, 0)

\* l.Warn(err.Error()) from inside a sloglg method.
sloglg_warn(l, err) ==
    Line("WARN", err.msg, slogEncode(l.h, "WARN", <<"sloglg", "user">>, 0, err.msg))

sloglg_WarnIfError(l, err) ==
    IF err.nil THEN NoEffect ELSE Effect(<<sloglg_warn(l, err)>>, 0, 0)

sloglg_WarnIfFuncError(l, fn) ==
    IF fn.nil THEN NoEffect
    ELSE IF fn.ret.nil THEN Effect(<<>>, 1, 0)
    ELSE Effect(<<sloglg_warn(l, fn.ret)>>, 1, 0)

sloglg_WarnIfCloseError(l, c) ==
    IF c.nil THEN NoEffect
    ELSE IF c.ret.nil THEN Effect(<<>>, 0, 1)
    ELSE Effect(<<sloglg_warn(l, c.ret)>>, 0, 1)

----------------------------------------------------------------------------
(* Calls on discard, loglg, zaplg and sloglg: each method runs to its return
   without giving up the processor to another call of the model. *)

DirectKinds == {"discard", "loglg", "zaplg", "sloglg"}

\* The leveled methods a Log of this kind has.
MethodsOf(kind) ==
    IF kind \in {"discard", "sloglg"} THEN {"Debug", "Warn", "Error"} ELSE LeveledMethods

\* The io.Writer the Log writes to (discardLog has none).
Writer(l) ==
    IF l.kind = "loglg" THEN l.impl.w
    ELSE IF l.kind = "zaplg" THEN l.z.w
    ELSE IF l.kind = "sloglg" THEN l.h.w
    ELSE 1

RECURSIVE BytesOf(_)
BytesOf(lines) ==
    IF lines = <<>> THEN <<>> ELSE Head(lines).bytes \o BytesOf(Tail(lines))

\* The error a WarnIf method, or Err, has in hand when it decides to log.
Observed(m, arg) ==
    IF arg.nil THEN nil
    ELSE IF m \in {"WarnIfError", "Err"} THEN arg
    ELSE arg.ret

\* The summary of a returned call.
Returned(m, i, call, isNil, err, lines, fwd, buf, fn, close) ==
    [op |-> m, recv |-> i, call |-> call, isNil |-> isNil, err |-> err,
     lines |-> lines, wrote |-> BytesOf(lines), fwd |-> fwd, buf |-> buf,
     fn |-> fn, close |-> close]

\* The state after call m on logs[i] with effect eff.
Applied(i, m, arg, eff) ==
    /\ ncalls < MaxCalls
    /\ ncalls' = ncalls + 1
    /\ bufs' = IF eff.lines = <<>> THEN bufs
               ELSE [bufs EXCEPT ![Writer(logs[i])] = @ \o BytesOf(eff.lines)]
    /\ fnCalls' = fnCalls + eff.fn
    /\ closeCalls' = closeCalls + eff.close
    /\ last' = Returned(m, i, ncalls + 1, arg.nil, Observed(m, arg), eff.lines,
                        <<>>, <<>>, eff.fn, eff.close)
    /\ UNCHANGED <<logs, arrays, sink, failed, thr, hist>>

CallLeveled(i, m, msg) ==
    /\ logs[i].kind \in DirectKinds
    /\ m \in MethodsOf(logs[i].kind)
    /\ Applied(i, m, nil,
               IF logs[i].kind = "discard" THEN discard_Leveled(logs[i], m, msg)
               ELSE IF logs[i].kind = "loglg" THEN loglg_Leveled(logs[i], m, msg)
               ELSE IF logs[i].kind = "zaplg" THEN zaplg_Leveled(logs[i], m, msg)
               ELSE sloglg_Leveled(logs[i], m, msg))

CallErr(i, err) ==
    /\ logs[i].kind = "discard"
    /\ Applied(i, "Err", err, discard_Err(logs[i], err))

CallWarnIfError(i, err) ==
    /\ logs[i].kind \in DirectKinds
    /\ Applied(i, "WarnIfError", err,
               IF logs[i].kind = "discard" THEN discard_WarnIfError(logs[i], err)
               ELSE IF logs[i].kind = "loglg" THEN loglg_WarnIfError(logs[i], err)
               ELSE IF logs[i].kind = "zaplg" THEN zaplg_WarnIfError(logs[i], err)
               ELSE sloglg_WarnIfError(logs[i], err))

CallWarnIfFuncError(i, fn) ==
    /\ logs[i].kind \in DirectKinds
    /\ Applied(i, "WarnIfFuncError", fn,
               IF logs[i].kind = "discard" THEN discard_WarnIfFuncError(logs[i], fn)
               ELSE IF logs[i].kind = "loglg" THEN loglg_WarnIfFuncError(logs[i], fn)
               ELSE IF logs[i].kind = "zaplg" THEN zaplg_WarnIfFuncError(logs[i], fn)
               ELSE sloglg_WarnIfFuncError(logs[i], fn))

CallWarnIfCloseError(i, c) ==
    /\ logs[i].kind \in DirectKinds
    /\ Applied(i, "WarnIfCloseError", c,
               IF logs[i].kind = "discard" THEN discard_WarnIfCloseError(logs[i], c)
               ELSE IF logs[i].kind = "loglg" THEN loglg_WarnIfCloseError(logs[i], c)
               ELSE IF logs[i].kind = "zaplg" THEN zaplg_WarnIfCloseError(logs[i], c)
               ELSE sloglg_WarnIfCloseError(logs[i], c))

DiscardWith(i, key, val) ==
    /\ logs[i].kind = "discard"
    /\ Len(logs) < MaxLogs
    /\ logs' = Append(logs, discard_With(logs[i], key, val))
    /\ hist' = Append(hist, <<>>)
    /\ last' = Derived("With", i, Len(logs) + 1)
    /\ UNCHANGED <<arrays, bufs, sink, failed, fnCalls, closeCalls, thr, ncalls>>

----------------------------------------------------------------------------
(* testlg: the methods, step by step *)

\* testlg.NewWith of the version with Strict: no kvs, no factoryFn field.
testlg_NewWithV1(fn, b) ==
    [kind |-> "testlg", t |-> "t", ver |-> 1, strict |-> FALSE, mu |-> "free",
     impl |-> factoryFn(fn, b), buf |-> b, factoryFn |-> fn, kvs |-> NilArray]

\* Mutant of stripNewLineEnding: two trailing newlines are removed.
stripNewLineEnding_two(b) ==
    IF Len(b) >= 2 /\ b[Len(b)] = "\n" /\ b[Len(b) - 1] = "\n"
    THEN SubSeq(b, 1, Len(b) - 2)
    ELSE IF Len(b) >= 1 /\ b[Len(b)] = "\n" THEN SubSeq(b, 1, Len(b) - 1)
    ELSE b

\* stripNewLineEnding (bytes) and strings.TrimSuffix(s, "\n") of the
\* version with Strict.
stripNewLineEnding(b) ==
    IF Len(b) = 0 THEN b
    ELSE IF b[Len(b)] = "\n" THEN SubSeq(b, 1, Len(b) - 1)
    ELSE b

\* Mutant of canLock: the mutex is not honoured.
canLock_always(l) == TRUE

\* sync.Mutex.Lock returns only when the mutex is free.
canLock(l) == l.mu = "free"

\* Which methods read the buffer with io.ReadAll before they forward
\* (the others forward buf.Bytes() and then Reset).
readsAll(l, m) ==
    \/ l.ver = 1
    \/ m \in {"WarnIfFuncError", "WarnIfCloseError", "Error", "Errorf"}

\* Mutant of sinkOp: strict mode applies to every level.
sinkOp_anyLevel(l, m) == IF l.ver = 1 /\ l.strict THEN "Error" ELSE "Log"

\* t.Error for Error and Errorf in strict mode, t.Log otherwise.
sinkOp(l, m) ==
    IF l.ver = 1 /\ m \in {"Error", "Errorf"} /\ l.strict THEN "Error" ELSE "Log"

\* Mutant of drained: the buffer keeps its bytes.
drained_keeps(b) == b

\* bytes.Buffer after Reset, or after io.ReadAll has read it to EOF.
drained(b) == <<>>

\* The frames above the zap method when impl is called from a testlg method.
testlgStack == <<"testlg", "user">>

\* l.t.Helper(): the location testing reports for t.Log or t.Error is the
\* first frame that is not the helper, the caller of the testlg method.
helperSite(stack) == FrameAt(stack, 1)

\* The method of impl a testlg method calls: impl.Warn(err) for the WarnIf methods.
implMethod(m) == IF m \in WarnIfMethods THEN "Warn" ELSE m

\* The entry impl emits for method m with message msg.
testlg_line(l, m, msg) == zaplg_line(l.impl, implMethod(m), msg, testlgStack)

\* The buffers after l.impl.Debug(a...) and the like: impl writes to its writer.
testlg_emit(bfs, l, line) == [bfs EXCEPT ![l.impl.z.w] = @ \o line.bytes]

\* A thread inside a testlg method that goes on to log.  strict and err are
\* ghosts: the mode when the call began, the error it has in hand.
Started(i, m, msg, err, call) ==
    [pc |-> "lock", l |-> i, m |-> m, msg |-> msg, err |-> err, call |-> call,
     strict |-> logs[i].strict,
     out |-> <<>>, lines |-> <<>>, fwd |-> <<>>, fn |-> 0, close |-> 0]

\* Thread t may start a call: it is idle.  Threads are interchangeable, so
\* of two idle threads the first starts.
CanStart(t) == thr[t].pc = "idle" /\ (t = "t2" => thr["t1"].pc # "idle")

TestlgLeveled(t, i, m, msg) ==
    /\ CanStart(t)
    /\ ncalls < MaxCalls
    /\ logs[i].kind = "testlg"
    /\ m \in LeveledMethods
    /\ thr' = [thr EXCEPT ![t] = Started(i, m, msg, nil, ncalls + 1)]
    /\ ncalls' = ncalls + 1
    /\ UNCHANGED <<logs, arrays, bufs, sink, failed, fnCalls, closeCalls, hist, last>>

TestlgWarnIfError(t, i, err) ==
    /\ CanStart(t)
    /\ ncalls < MaxCalls
    /\ logs[i].kind = "testlg"
    /\ ncalls' = ncalls + 1
    /\ IF err.nil
       THEN /\ last' = Returned("WarnIfError", i, ncalls + 1, TRUE, nil, <<>>, <<>>,
                                bufs[logs[i].buf], 0, 0)
            /\ UNCHANGED thr
       ELSE /\ thr' = [thr EXCEPT ![t] =
                        Started(i, "WarnIfError", err.msg, err, ncalls + 1)]
            /\ UNCHANGED last
    /\ UNCHANGED <<logs, arrays, bufs, sink, failed, fnCalls, closeCalls, hist>>

TestlgWarnIfFuncError(t, i, fn) ==
    /\ CanStart(t)
    /\ ncalls < MaxCalls
    /\ logs[i].kind = "testlg"
    /\ ncalls' = ncalls + 1
    /\ IF fn.nil
       THEN /\ last' = Returned("WarnIfFuncError", i, ncalls + 1, TRUE, nil, <<>>, <<>>,
                                bufs[logs[i].buf], 0, 0)
            /\ UNCHANGED <<thr, fnCalls>>
       ELSE /\ fnCalls' = fnCalls + 1
            /\ IF fn.ret.nil
               THEN /\ last' = Returned("WarnIfFuncError", i, ncalls + 1, FALSE, nil,
                                        <<>>, <<>>, bufs[logs[i].buf], 1, 0)
                    /\ UNCHANGED thr
               ELSE /\ thr' = [thr EXCEPT ![t] =
                                [Started(i, "WarnIfFuncError", fn.ret.msg, fn.ret, ncalls + 1)
                                    EXCEPT !.fn = 1]]
                    /\ UNCHANGED last
    /\ UNCHANGED <<logs, arrays, bufs, sink, failed, closeCalls, hist>>

TestlgWarnIfCloseError(t, i, c) ==
    /\ CanStart(t)
    /\ ncalls < MaxCalls
    /\ logs[i].kind = "testlg"
    /\ ncalls' = ncalls + 1
    /\ IF c.nil
       THEN /\ last' = Returned("WarnIfCloseError", i, ncalls + 1, TRUE, nil, <<>>, <<>>,
                                bufs[logs[i].buf], 0, 0)
            /\ UNCHANGED <<thr, closeCalls>>
       ELSE /\ closeCalls' = closeCalls + 1
            /\ IF c.ret.nil
               THEN /\ last' = Returned("WarnIfCloseError", i, ncalls + 1, FALSE, nil,
                                        <<>>, <<>>, bufs[logs[i].buf], 0, 1)
                    /\ UNCHANGED thr
               ELSE /\ thr' = [thr EXCEPT ![t] =
                                [Started(i, "WarnIfCloseError", c.ret.msg, c.ret, ncalls + 1)
                                    EXCEPT !.close = 1]]
                    /\ UNCHANGED last
    /\ UNCHANGED <<logs, arrays, bufs, sink, failed, fnCalls, hist>>

\* l.mu.Lock()
TestlgLock(t) ==
    /\ thr[t].pc = "lock"
    /\ canLock(logs[thr[t].l])
    /\ logs' = [logs EXCEPT ![thr[t].l].mu = t]
    /\ thr' = [thr EXCEPT ![t].pc = "emit"]
    /\ UNCHANGED <<arrays, bufs, sink, failed, fnCalls, closeCalls, ncalls, hist, last>>

\* l.impl.Debug(a...) and the like: impl writes one entry to its writer.
TestlgEmit(t) ==
    /\ thr[t].pc = "emit"
    /\ LET l == logs[thr[t].l]
           line == testlg_line(l, thr[t].m, thr[t].msg)
       IN  /\ bufs' = testlg_emit(bufs, l, line)
           /\ thr' = [thr EXCEPT ![t].pc = IF readsAll(l, thr[t].m) THEN "drain" ELSE "forward",
                                 ![t].lines = Append(@, line)]
    /\ UNCHANGED <<logs, arrays, sink, failed, fnCalls, closeCalls, ncalls, hist, last>>

\* io.ReadAll(l.buf), or l.buf.Reset() after the entry was forwarded.
TestlgDrain(t) ==
    /\ thr[t].pc = "drain"
    /\ LET l == logs[thr[t].l]
       IN  /\ bufs' = [bufs EXCEPT ![l.buf] = drained(@)]
           /\ thr' = [thr EXCEPT ![t].pc = IF readsAll(l, thr[t].m) THEN "forward" ELSE "unlock",
                                 ![t].out = IF readsAll(l, thr[t].m) THEN bufs[l.buf] ELSE @]
    /\ UNCHANGED <<logs, arrays, sink, failed, fnCalls, closeCalls, ncalls, hist, last>>

\* l.t.Helper(); l.t.Log(...) or l.t.Error(...).  call, m and strict are
\* ghosts of the entry: the call that forwarded it.
TestlgForward(t) ==
    /\ thr[t].pc = "forward"
    /\ LET l == logs[thr[t].l]
           e == [op |-> sinkOp(l, thr[t].m),
                 text |-> stripNewLineEnding(IF readsAll(l, thr[t].m)
                                             THEN thr[t].out ELSE bufs[l.buf]),
                 site |-> helperSite(testlgStack),
                 call |-> thr[t].call, m |-> thr[t].m, strict |-> thr[t].strict]
       IN  /\ sink' = Append(sink, e)
           /\ failed' = (failed \/ e.op = "Error")
           /\ thr' = [thr EXCEPT ![t].pc = IF readsAll(l, thr[t].m) THEN "unlock" ELSE "drain",
                                 ![t].fwd = Append(@, e)]
    /\ UNCHANGED <<logs, arrays, bufs, fnCalls, closeCalls, ncalls, hist, last>>

\* The deferred l.mu.Unlock() and the return.
TestlgUnlock(t) ==
    /\ thr[t].pc = "unlock"
    /\ logs' = [logs EXCEPT ![thr[t].l].mu = "free"]
    /\ thr' = [thr EXCEPT ![t] = Idle]
    /\ last' = Returned(thr[t].m, thr[t].l, thr[t].call, FALSE, thr[t].err, thr[t].lines,
                        thr[t].fwd, bufs[logs[thr[t].l].buf], thr[t].fn, thr[t].close)
    /\ UNCHANGED <<arrays, bufs, sink, failed, fnCalls, closeCalls, ncalls, hist>>

\* Log.Strict(strict), called while no method of l is running.
TestlgStrict(i, strict) ==
    /\ logs[i].kind = "testlg"
    /\ logs[i].ver = 1
    /\ \A t \in Threads : thr[t].pc = "idle"
    /\ logs[i].strict # strict
    /\ logs' = [logs EXCEPT ![i].strict = strict]
    /\ last' = Derived("Strict", i, i)
    /\ UNCHANGED <<arrays, bufs, sink, failed, fnCalls, closeCalls, thr, ncalls, hist>>

\* Two goroutines calling the methods of one testlg Log.
InitConc == InitRoot(testlg_NewWith("zaplg.TestingFactoryFn", 1))

NextConc ==
    \/ \E t \in Threads, i \in 1..Len(logs), m \in LeveledMethods, msg \in Msgs :
            TestlgLeveled(t, i, m, msg)
    \/ \E t \in Threads, i \in 1..Len(logs), err \in Errs \cup {nil} :
            TestlgWarnIfError(t, i, err)
    \/ \E t \in Threads, i \in 1..Len(logs), fn \in Fns : TestlgWarnIfFuncError(t, i, fn)
    \/ \E t \in Threads, i \in 1..Len(logs), c \in Fns : TestlgWarnIfCloseError(t, i, c)
    \/ \E t \in Threads : TestlgLock(t)
    \/ \E t \in Threads : TestlgEmit(t)
    \/ \E t \in Threads : TestlgDrain(t)
    \/ \E t \in Threads : TestlgForward(t)
    \/ \E t \in Threads : TestlgUnlock(t)

SpecConc == InitConc /\ [][NextConc]_vars

\* One goroutine calling the methods of one Log, of any adapter.
Roots ==
    {discard_New}
    \cup {loglg_NewWith(1, p, lv, p) : p \in BOOLEAN, lv \in BOOLEAN}
    \cup {zaplg_NewWith(1, f, TRUE, c, 0) : f \in {"text", "json"}, c \in BOOLEAN}
    \cup {zaplg_NewWith(1, "text", FALSE, c, 0) : c \in BOOLEAN}
    \cup {sloglg_NewWith(1, f, TRUE, c, 0) : f \in {"text", "json"}, c \in BOOLEAN}
    \cup {sloglg_NewWith(1, "text", FALSE, FALSE, 0)}
    \cup {testlg_NewWith(fn, 1) : fn \in Factories}
    \cup {testlg_NewWithV1("zaplg.TestingFactoryFn", 1)}

InitCalls == \E root \in Roots : InitRoot(root)

NextCalls ==
    \/ \E i \in 1..Len(logs), m \in LeveledMethods, msg \in Msgs : CallLeveled(i, m, msg)
    \/ \E i \in 1..Len(logs), err \in Errs \cup {nil} : CallErr(i, err)
    \/ \E i \in 1..Len(logs), err \in Errs \cup {nil} : CallWarnIfError(i, err)
    \/ \E i \in 1..Len(logs), fn \in Fns : CallWarnIfFuncError(i, fn)
    \/ \E i \in 1..Len(logs), c \in Fns : CallWarnIfCloseError(i, c)
    \/ \E i \in 1..Len(logs), key \in Keys, val \in Vals : DiscardWith(i, key, val)
    \/ \E i \in 1..Len(logs), m \in LeveledMethods, msg \in Msgs :
            TestlgLeveled("t1", i, m, msg)
    \/ \E i \in 1..Len(logs), err \in Errs \cup {nil} : TestlgWarnIfError("t1", i, err)
    \/ \E i \in 1..Len(logs), fn \in Fns : TestlgWarnIfFuncError("t1", i, fn)
    \/ \E i \in 1..Len(logs), c \in Fns : TestlgWarnIfCloseError("t1", i, c)
    \/ TestlgLock("t1")
    \/ TestlgEmit("t1")
    \/ TestlgDrain("t1")
    \/ TestlgForward("t1")
    \/ TestlgUnlock("t1")
    \/ \E i \in 1..Len(logs), strict \in BOOLEAN : TestlgStrict(i, strict)

SpecCalls == InitCalls /\ [][NextCalls]_vars

----------------------------------------------------------------------------
(* What a sequence of With calls is meant to leave: each distinct key once,
   in order of first insertion, with the value of its most recent call. *)

FirstAt(h) == {i \in 1..Len(h) : \A j \in 1..(i - 1) : h[j].k # h[i].k}

NthOf(S, n) == CHOOSE x \in S : Cardinality({y \in S : y < x}) = n - 1

LastValue(h, key) ==
    h[CHOOSE i \in 1..Len(h) :
        /\ h[i].k = key
        /\ \A j \in (i + 1)..Len(h) : h[j].k # key].v

ExpectedFields(h) ==
    [n \in 1..Cardinality(FirstAt(h)) |->
        keyVal(h[NthOf(FirstAt(h), n)].k, LastValue(h, h[NthOf(FirstAt(h), n)].k))]

\* The fields the backend logger of instance i applies to every entry it emits.
BackendFields(i) ==
    IF logs[i].kind = "zaplg" THEN logs[i].z.fields ELSE logs[i].impl.z.fields

\* The accumulated field list of instance i.
FieldList(i) == Slice(arrays, logs[i].kvs)

\* C1: after any sequence of With calls on a fresh zaplg or testlg Log, the
\* instance's field list and the fields of its backend logger hold each
\* distinct key exactly once, with the value of the most recent With for that
\* key, the keys in order of first insertion.
C1_WithDeduplicates ==
    \A i \in 1..Len(logs) :
        logs[i].kind \in {"zaplg", "testlg"} =>
            /\ FieldList(i) = ExpectedFields(hist[i])
            /\ BackendFields(i) = ExpectedFields(hist[i])

\* C1 witness: a zaplg and (elsewhere) a testlg instance derived by three With
\* calls k1, k2, k1: the repeated key keeps the first position, takes the last value.
C1_Witness ==
    \E i \in 1..Len(logs) :
        /\ logs[i].kind \in {"zaplg", "testlg"}
        /\ hist[i] = <<keyVal("k1", "v1"), keyVal("k2", "v1"), keyVal("k1", "v2")>>
        /\ FieldList(i) = <<keyVal("k1", "v2"), keyVal("k2", "v1")>>

\* What a caller can observe of instance i: the struct, the contents of its
\* field list, and for testlg the contents of its buffer and of impl's fields.
View(i) ==
    [log |-> logs[i],
     kvs |-> IF logs[i].kind \in {"zaplg", "testlg"}
             THEN Slice(arrays, logs[i].kvs) ELSE <<>>,
     implKvs |-> IF logs[i].kind = "testlg"
                 THEN Slice(arrays, logs[i].impl.kvs) ELSE <<>>]

\* C2: a With call leaves its receiver, and every other instance that existed
\* before the call, exactly as it was: field list, caller skip, backend logger.
C2_WithDoesNotMutate ==
    [][last'.op = "With" => \A i \in 1..Len(logs) : View(i)' = View(i)]_vars

\* C2 witness: With took the existing-key branch on a receiver whose kvs slice
\* shares its array with another instance, and returned a different field list.
C2_Witness ==
    /\ last.op = "With"
    /\ logs[last.recv].kind = "zaplg"
    /\ logs[last.recv].kvs # NilArray
    /\ Len(FieldList(last.ret)) = Len(FieldList(last.recv))
    /\ FieldList(last.ret) # FieldList(last.recv)
    /\ \E j \in 1..Len(logs) :
          j # last.recv /\ j # last.ret /\ logs[j].kvs = logs[last.recv].kvs

----------------------------------------------------------------------------
(* Calls: what the claims below speak about *)

CallOps == LeveledMethods \cup WarnIfMethods \cup {"Err"}

\* The call that began most recently: still inside its method, or returned.
LatestCall ==
    IF \E t \in Threads : thr[t].pc # "idle" /\ thr[t].call = ncalls
    THEN LET t == CHOOSE u \in Threads : thr[u].pc # "idle" /\ thr[u].call = ncalls
         IN  [op |-> thr[t].m, recv |-> thr[t].l, isNil |-> FALSE]
    ELSE [op |-> last.op, recv |-> last.recv, isNil |-> last.isNil]

\* A returned call that had something to log.
Logged(r) == r.op \in LeveledMethods \/ (r.op \in WarnIfMethods /\ ~r.err.nil)

\* text is wrote, less one trailing newline if wrote ends in one.
OneNewlineOff(text, wrote) ==
    \/ text \o <<"\n">> = wrote
    \/ text = wrote /\ (wrote = <<>> \/ wrote[Len(wrote)] # "\n")

\* C3: a testlg call that logs has, on return, forwarded exactly one entry to
\* the test sink, the only one of that call, whose text is the bytes impl wrote during
\* the call less at most one trailing newline; the capture buffer is empty on
\* return, and so is every capture buffer whenever no call is running.
C3_OneEntryPerCall ==
    /\ (last.op \in CallOps /\ logs[last.recv].kind = "testlg" /\ Logged(last)) =>
            /\ last.wrote # <<>>
            /\ Len(last.fwd) = 1
            /\ OneNewlineOff(last.fwd[1].text, last.wrote)
            /\ last.buf = <<>>
            /\ \E n \in 1..Len(sink) :
                  /\ sink[n] = last.fwd[1]
                  /\ \A k \in 1..Len(sink) : sink[k].call = last.call => k = n
    /\ (\A t \in Threads : thr[t].pc = "idle") =>
            \A i \in 1..Len(logs) : logs[i].kind = "testlg" => bufs[logs[i].buf] = <<>>

\* C3 witness: the second of two calls, WarnIfFuncError with an error whose
\* message ends in a newline, forwarded the entry with one newline removed.
C3_Witness ==
    /\ last.op = "WarnIfFuncError"
    /\ logs[last.recv].kind = "testlg"
    /\ Len(sink) = 2
    /\ last.err = [nil |-> FALSE, msg |-> <<"b", "\n">>]
    /\ last.wrote[Len(last.wrote) - 1] = "\n"
    /\ sink[2].text \o <<"\n">> = last.wrote
    /\ sink[1].text # sink[2].text

\* At most one thread is between Lock and Unlock of a testlg Log.
InCritical(t) == thr[t].pc \in {"emit", "drain", "forward", "unlock"}

\* C4: with two threads calling one testlg Log, only one of them at a time is
\* between its write and its forward; the sink only grows, holds at most one
\* entry per call, and a call that logs returns with exactly one entry in the
\* sink, whose text is what impl wrote during that call and nothing else.
C4_CallsDoNotInterleave ==
    [][/\ \A t, u \in Threads :
              (t # u /\ InCritical(t)' /\ InCritical(u)') => thr'[t].l # thr'[u].l
       /\ Len(sink') >= Len(sink) /\ SubSeq(sink', 1, Len(sink)) = sink
       /\ \A n, k \in 1..Len(sink') : n # k => sink'[n].call # sink'[k].call
       /\ (last' # last /\ last'.op \in CallOps) =>
              LET mine == {n \in 1..Len(sink') : sink'[n].call = last'.call}
              IN  IF Logged(last')
                  THEN /\ Cardinality(mine) = 1
                       /\ \A n \in mine : /\ last'.fwd = <<sink'[n]>>
                                          /\ OneNewlineOff(sink'[n].text, last'.wrote)
                  ELSE mine = {}
      ]_vars

\* C4 witness: two calls overlapped: the call that began second forwarded
\* its entry first, and both have returned.
C4_Witness ==
    /\ \A t \in Threads : thr[t].pc = "idle"
    /\ Len(sink) = 2
    /\ sink[1].call = 2
    /\ sink[2].call = 1

\* C5: an entry reaches the sink through t.Error exactly when it comes from
\* Error or Errorf called in strict mode, and through t.Log otherwise; the
\* test is marked failed exactly when some entry went through t.Error.
C5_StrictErrorFails ==
    /\ \A n \in 1..Len(sink) :
          sink[n].op = IF sink[n].m \in {"Error", "Errorf"} /\ sink[n].strict
                       THEN "Error" ELSE "Log"
    /\ failed <=> \E n \in 1..Len(sink) : sink[n].op = "Error"

\* C5 witness: in strict mode Warn went through t.Log, then Error through
\* t.Error, and the test is failed.
C5_Witness ==
    /\ Len(sink) = 2
    /\ sink[1].m = "Warn" /\ sink[1].strict /\ sink[1].op = "Log"
    /\ sink[2].m = "Error" /\ sink[2].strict /\ sink[2].op = "Error"
    /\ failed

\* Where a leveled or WarnIf call on instance i, in the primed heap, would write.
WritesOnly(i) ==
    \A m \in LeveledMethods \cup WarnIfMethods, msg \in Msgs :
        \A b \in 1..Len(bufs) :
            b # logs[i].buf =>
                testlg_emit(bufs, logs[i], testlg_line(logs[i], m, msg))[b] = bufs[b]

\* C6: With on a testlg Log returns a testlg Log on a buffer no instance had
\* before, empty, with an impl built by the receiver's factory on that buffer
\* and carrying exactly the merged fields, the same testing.TB, the same
\* factory; the receiver's struct, field list and buffer are as before; and
\* whatever impl of either instance writes goes to that instance's own buffer.
C6_TestlgWithIsolates ==
    [][(last' # last /\ last'.op = "With" /\ logs[last'.recv].kind = "testlg") =>
          LET p == logs[last'.recv]
              c == logs'[last'.ret]
              fresh == factoryFn(p.factoryFn, c.buf)
              merged == ExpectedFields(hist'[last'.ret])
          IN  /\ c.kind = "testlg"
              /\ c.buf \notin 1..Len(bufs)
              /\ \A j \in 1..Len(logs) : logs[j].buf # c.buf
              /\ bufs'[c.buf] = <<>>
              /\ Slice(arrays', c.kvs) = merged
              /\ c.impl.proto = fresh.proto
              /\ c.impl.z = zapWith(fresh.z, merged)
              /\ c.impl.z.w = c.buf
              /\ c.t = p.t
              /\ c.factoryFn = p.factoryFn
              /\ \A r \in 1..Len(logs) : r = last'.recv => View(r)' = View(r)
              /\ bufs'[p.buf] = bufs[p.buf]
              /\ c.buf # p.buf
              /\ \A k \in 1..Len(logs') : k \in {last'.recv, last'.ret} => WritesOnly(k)'
      ]_vars

\* C6 witness: With on a testlg Log that is itself a child, with a key the
\* receiver already has: the child has its own buffer and the replaced value.
C6_Witness ==
    /\ last.op = "With"
    /\ logs[last.recv].kind = "testlg"
    /\ last.recv > 1
    /\ logs[last.ret].buf = last.ret
    /\ logs[last.ret].factoryFn = "zaplg.json"
    /\ FieldList(last.recv) = <<keyVal("k1", "v1"), keyVal("k2", "v1")>>
    /\ logs[last.ret].impl.z.fields = <<keyVal("k1", "v2"), keyVal("k2", "v1")>>

\* C7: a WarnIfError, WarnIfFuncError or WarnIfCloseError call with a nil
\* argument returns at once and changes nothing: no writer and no sink gets
\* a byte, no func and no closer is invoked.
C7_NilIsNoOp ==
    [][(ncalls' # ncalls /\ LatestCall'.op \in WarnIfMethods /\ LatestCall'.isNil) =>
          /\ last'.call = ncalls'
          /\ last'.lines = <<>>
          /\ bufs' = bufs
          /\ sink' = sink
          /\ failed' = failed
          /\ fnCalls' = fnCalls
          /\ closeCalls' = closeCalls
          /\ logs' = logs
          /\ thr' = thr
      ]_vars

\* C7 witness: WarnIfError(nil) returned on a zaplg Log that had already
\* written an entry.
C7_Witness ==
    /\ last.op = "WarnIfError"
    /\ last.isNil
    /\ logs[last.recv].kind = "zaplg"
    /\ last.call = 2
    /\ bufs[1] # <<>>

\* C8: the func given to WarnIfFuncError runs once in the step that begins a
\* call with a non-nil func, whatever the adapter and whatever the func
\* returns, and in no other step.
C8_FuncRunsOnce ==
    [][fnCalls' = fnCalls + (IF /\ ncalls' # ncalls
                                /\ LatestCall'.op = "WarnIfFuncError"
                                /\ ~LatestCall'.isNil
                             THEN 1 ELSE 0)
      ]_vars

\* C8 witness: after two WarnIfFuncError calls on a discard Log, the second
\* with a func that returns an error, the func has run twice and nothing was written.
C8_Witness ==
    /\ last.op = "WarnIfFuncError"
    /\ logs[last.recv].kind = "discard"
    /\ ~last.isNil
    /\ ~last.err.nil
    /\ fnCalls = 2
    /\ bufs[1] = <<>>

\* C9: on a Log that is not discard, a WarnIf call with a non-nil argument
\* emits one entry at WARN whose message is the error's message if the error
\* in hand is non-nil, and nothing if it is nil; WarnIfCloseError has called
\* Close once.
C9_WarnIfEmitsTheError ==
    (last.op \in WarnIfMethods /\ logs[last.recv].kind # "discard" /\ ~last.isNil) =>
        /\ IF last.err.nil
           THEN last.lines = <<>> /\ last.fwd = <<>>
           ELSE /\ Len(last.lines) = 1
                /\ last.lines[1].level = "WARN"
                /\ last.lines[1].msg = last.err.msg
                /\ logs[last.recv].kind = "testlg" => Len(last.fwd) = 1
        /\ last.close = IF last.op = "WarnIfCloseError" THEN 1 ELSE 0

\* C9 witness: loglg.WarnIfError with an error whose message is "%d" emitted
\* an entry whose message is not the error's message.
C9_Witness ==
    /\ last.op = "WarnIfError"
    /\ logs[last.recv].kind = "loglg"
    /\ last.err = [nil |-> FALSE, msg |-> <<"%", "d">>]
    /\ last.lines[1].msg = <<"%!", "d", "(MISSING)">>

\* What C9 says, for every adapter but loglg, and for loglg for errors whose
\* message holds no percent sign: this part holds.
C9_ExceptPercentInLoglg ==
    (/\ last.op \in WarnIfMethods /\ logs[last.recv].kind # "discard" /\ ~last.isNil
     /\ ~(/\ logs[last.recv].kind = "loglg"
          /\ ~last.err.nil
          /\ \E n \in 1..Len(last.err.msg) : last.err.msg[n] = "%")) =>
        /\ IF last.err.nil
           THEN last.lines = <<>> /\ last.fwd = <<>>
           ELSE /\ Len(last.lines) = 1
                /\ last.lines[1].level = "WARN"
                /\ last.lines[1].msg = last.err.msg
                /\ logs[last.recv].kind = "testlg" => Len(last.fwd) = 1
        /\ last.close = IF last.op = "WarnIfCloseError" THEN 1 ELSE 0

\* C10: whatever is called on a discard Log, nothing is ever written or
\* reported; With returns a discard Log; the one thing a call does is run the
\* func of WarnIfFuncError or Close of WarnIfCloseError, once, when non-nil.
C10_DiscardIsSilent ==
    [][logs[1].kind = "discard" =>
          /\ \A i \in 1..Len(logs') : logs'[i] = discard_New
          /\ \A b \in 1..Len(bufs') : bufs'[b] = <<>>
          /\ Len(bufs') = Len(bufs)
          /\ sink' = <<>> /\ ~failed'
          /\ arrays' = arrays
          /\ (last' # last /\ last'.op \in CallOps) =>
                /\ last'.lines = <<>>
                /\ fnCalls' = fnCalls +
                      (IF last'.op = "WarnIfFuncError" /\ ~last'.isNil THEN 1 ELSE 0)
                /\ closeCalls' = closeCalls +
                      (IF last'.op = "WarnIfCloseError" /\ ~last'.isNil THEN 1 ELSE 0)
          /\ (last' # last /\ last'.op \notin CallOps) =>
                /\ last'.op = "With"
                /\ logs'[last'.ret].kind = "discard"
                /\ fnCalls' = fnCalls /\ closeCalls' = closeCalls
      ]_vars

\* C10 witness: on a discard Log got from With, WarnIfCloseError called Close
\* on a closer that returned an error, and nothing was written.
C10_Witness ==
    /\ last.op = "WarnIfCloseError"
    /\ logs[last.recv].kind = "discard"
    /\ last.recv > 1
    /\ ~last.err.nil
    /\ closeCalls = 1
    /\ last.lines = <<>>
    /\ bufs[1] = <<>>

----------------------------------------------------------------------------
(* Caller reporting *)

\* Whether the Log was built to report the caller.
CallerEnabled(l) ==
    IF l.kind = "loglg" THEN l.impl.shortfile
    ELSE IF l.kind = "zaplg" THEN l.z.caller
    ELSE IF l.kind = "sloglg" THEN l.h.source
    ELSE IF l.kind = "testlg" THEN l.impl.z.caller
    ELSE FALSE

\* The tokens a frame inside an adapter, or beyond the call site, shows as.
AdapterFrames == {"loglg", "zaplg", "sloglg", "testlg", "runtime"}

Has(bytes, tok) == \E n \in 1..Len(bytes) : bytes[n] = tok

\* The entry reports the frame of the user's call and no other frame.
ReportsCallSite(line) ==
    /\ Has(line.bytes, "user")
    /\ \A f \in AdapterFrames : ~Has(line.bytes, f)

\* C11: on loglg, zaplg and sloglg built with caller reporting, the entry a
\* WarnIf method emits reports the frame that called the WarnIf method, never
\* a frame inside the adapter.
C11_WarnIfReportsCallSite ==
    (/\ last.op \in WarnIfMethods
     /\ logs[last.recv].kind \in {"loglg", "zaplg", "sloglg"}
     /\ CallerEnabled(logs[last.recv])
     /\ last.lines # <<>>) =>
        \A n \in 1..Len(last.lines) : ReportsCallSite(last.lines[n])

\* C11 witness: sloglg.WarnIfError on a Log built with caller reporting
\* emitted an entry whose source is the frame of sloglg's own method.
C11_Witness ==
    /\ last.op = "WarnIfError"
    /\ logs[last.recv].kind = "sloglg"
    /\ CallerEnabled(logs[last.recv])
    /\ Len(last.lines) = 1
    /\ Has(last.lines[1].bytes, "sloglg")
    /\ ~Has(last.lines[1].bytes, "user")

\* What C11 says, for loglg and zaplg: this part holds.
C11_ExceptSloglg ==
    (/\ last.op \in WarnIfMethods
     /\ logs[last.recv].kind \in {"loglg", "zaplg"}
     /\ CallerEnabled(logs[last.recv])
     /\ last.lines # <<>>) =>
        \A n \in 1..Len(last.lines) : ReportsCallSite(last.lines[n])

----------------------------------------------------------------------------
(* lg.AddCallerSkip *)

\* Mutant of hasAddCallerSkip: the type assertion never succeeds.
hasAddCallerSkip_none(l) == FALSE

\* log.(addCallerSkipper): zaplg.Log and sloglg.Log have the method.
hasAddCallerSkip(l) == l.kind \in {"zaplg", "sloglg"}

\* sloglg.Log.AddCallerSkip: the same slog.Logger, the skip added.
sloglg_AddCallerSkipLog(l, skip) ==
    [kind |-> "sloglg", h |-> l.h, addCallerSkip |-> l.addCallerSkip + skip]

\* The summary of a returned lg.AddCallerSkip(log, skip); ref 0 is the nil Log.
Skipped(ref, ret, skip) ==
    [op |-> "lg.AddCallerSkip", recv |-> ref, ret |-> ret, call |-> 0, skip |-> skip]

\* lg.AddCallerSkip(log, skip), log being nil (ref 0) or logs[ref].
LgAddCallerSkip(ref, skip) ==
    /\ IF ref = 0
       THEN /\ last' = Skipped(0, 0, skip)
            /\ UNCHANGED <<logs, hist>>
       ELSE IF hasAddCallerSkip(logs[ref])
       THEN /\ Len(logs) < MaxLogs
            /\ logs' = Append(logs, IF logs[ref].kind = "zaplg"
                                    THEN zaplg_AddCallerSkipLog(logs[ref], skip)
                                    ELSE sloglg_AddCallerSkipLog(logs[ref], skip))
            /\ hist' = Append(hist, hist[ref])
            /\ last' = Skipped(ref, Len(logs) + 1, skip)
       ELSE /\ last' = Skipped(ref, ref, skip)
            /\ UNCHANGED <<logs, hist>>
    /\ UNCHANGED <<arrays, bufs, sink, failed, fnCalls, closeCalls, thr, ncalls>>

\* One Log of each adapter, lg.AddCallerSkip and With applied to it.
InitSkip ==
    \E root \in {discard_New,
                  loglg_NewWith(1, FALSE, TRUE, TRUE),
                  zaplg_NewWith(1, "text", TRUE, TRUE, 0),
                  sloglg_NewWith(1, "text", TRUE, TRUE, 0),
                  testlg_NewWith("zaplg.TestingFactoryFn", 1)} :
        InitRoot(root)

NextSkip ==
    \/ \E ref \in 0..Len(logs), skip \in Skips : LgAddCallerSkip(ref, skip)
    \/ \E i \in 1..Len(logs), key \in Keys, val \in Vals : ZaplgWith(i, key, val)

SpecSkip == InitSkip /\ [][NextSkip]_vars

\* The additional caller skip a Log carries.
SkipOf(l) == IF l.kind = "zaplg" THEN l.callerSkip ELSE l.addCallerSkip

\* C13: lg.AddCallerSkip(log, n) returns nil for a nil log; for a Log with no
\* AddCallerSkip method (discard, loglg, testlg) it returns that same Log and
\* makes none; for zaplg and sloglg it returns a new Log of the same kind with
\* n more caller skip; and every Log that existed is as it was.
C13_AddCallerSkipFacade ==
    [][(last' # last /\ last'.op = "lg.AddCallerSkip") =>
          /\ \A i \in 1..Len(logs) : View(i)' = View(i)
          /\ arrays' = arrays
          /\ IF last'.recv = 0
             THEN last'.ret = 0 /\ Len(logs') = Len(logs)
             ELSE IF logs[last'.recv].kind \in {"discard", "loglg", "testlg"}
             THEN last'.ret = last'.recv /\ Len(logs') = Len(logs)
             ELSE /\ last'.ret = Len(logs) + 1
                  /\ Len(logs') = Len(logs) + 1
                  /\ logs'[last'.ret].kind = logs[last'.recv].kind
                  /\ SkipOf(logs'[last'.ret]) = SkipOf(logs[last'.recv]) + last'.skip
                  /\ logs[last'.recv].kind = "zaplg" =>
                        /\ logs'[last'.ret].z.skip = logs[last'.recv].z.skip + last'.skip
                        /\ logs'[last'.ret].z.fields = logs[last'.recv].z.fields
      ]_vars

\* C13 witness: lg.AddCallerSkip(log, 2) on a zaplg Log that carries a field
\* returned a new Log with two more units of skip and the same field.
C13_Witness ==
    /\ last.op = "lg.AddCallerSkip"
    /\ last.recv > 1
    /\ logs[last.recv].kind = "zaplg"
    /\ last.ret # last.recv
    /\ logs[last.ret].callerSkip = logs[last.recv].callerSkip + 2
    /\ logs[last.ret].z.fields = <<keyVal("k1", "v1")>>

----------------------------------------------------------------------------
(* The level and caller options *)

\* Whether the Log was built with level = true.
LevelEnabled(l) ==
    IF l.kind = "loglg" THEN l.level
    ELSE IF l.kind = "zaplg" THEN l.z.level
    ELSE l.h.wantLevel

\* The tokens that show level lvl in capitals, bare or padded to five.
Shown(lvl) == IF lvl = "WARN" THEN {"WARN", "WARN "} ELSE {lvl}

\* Every token that shows some level, in either letter case.
LevelTokens == {"DEBUG", "WARN", "WARN ", "ERROR", "debug", "warn", "error"}

\* sub occurs in bytes as a run of consecutive tokens.
Contains(bytes, sub) ==
    \E n \in 0..(Len(bytes) - Len(sub)) : SubSeq(bytes, n + 1, n + Len(sub)) = sub

\* The line shows the message, as it is or escaped for JSON.
Shows(bytes, msg) == Contains(bytes, msg) \/ Contains(bytes, jsonEscape(msg))

\* The one line of a call has the level iff level is on, the calling frame
\* iff caller is on, no token of an option that is off, and the message.
OptionsShape(l, r) ==
    /\ Len(r.lines) = 1
    /\ LET b == r.lines[1].bytes
       IN  /\ LevelEnabled(l) <=> \E tok \in Shown(r.lines[1].level) : Has(b, tok)
           /\ r.lines[1].level = LevelOf(r.op)
           /\ ~LevelEnabled(l) => \A tok \in LevelTokens : ~Has(b, tok)
           /\ CallerEnabled(l) <=> Has(b, "user")
           /\ ~CallerEnabled(l) => \A f \in AdapterFrames : ~Has(b, f)
           /\ Shows(b, r.lines[1].msg)
           /\ ~Has(b, "")

\* C14: on loglg, zaplg and sloglg, for every level and caller option and
\* every method that emits, the call emits one line, which holds the level
\* in capitals iff level is on, the calling frame iff caller is on, and the
\* message, with nothing in the place of an option that is off.
C14_LevelAndCallerOptions ==
    (/\ last.op \in LeveledMethods \cup WarnIfMethods
     /\ logs[last.recv].kind \in {"loglg", "zaplg", "sloglg"}
     /\ Logged(last)) =>
        OptionsShape(logs[last.recv], last)

\* C14 witness: Warn on a sloglg Log built with level = false emitted a line
\* that shows the level.
C14_Witness ==
    /\ last.op = "Warn"
    /\ logs[last.recv].kind = "sloglg"
    /\ ~LevelEnabled(logs[last.recv])
    /\ Len(last.lines) = 1
    /\ Has(last.lines[1].bytes, "WARN")

\* What C14 says, for loglg and for zaplg in text format: this part holds.
C14_LoglgAndZapText ==
    (/\ last.op \in LeveledMethods \cup WarnIfMethods
     /\ \/ logs[last.recv].kind = "loglg"
        \/ logs[last.recv].kind = "zaplg" /\ logs[last.recv].z.format = "text"
     /\ Logged(last)) =>
        OptionsShape(logs[last.recv], last)

----------------------------------------------------------------------------
(* stripNewLineEnding as a function of its input *)

MaxLen == 3
MaxStrips == 2

Bytes == {"a", "b", "\n"}

\* Every byte string of at most MaxLen bytes.
ByteStrings == UNION {[1..k -> Bytes] : k \in 0..MaxLen}

\* bufs[1] is the input s; sink is empty.
InitStrip ==
    /\ logs = <<>>
    /\ arrays = <<>>
    /\ bufs \in {<<s>> : s \in ByteStrings}
    /\ sink = <<>>
    /\ failed = FALSE
    /\ fnCalls = 0
    /\ closeCalls = 0
    /\ thr = [t \in Threads |-> Idle]
    /\ ncalls = 0
    /\ hist = <<>>
    /\ last = NoOp

\* stripNewLineEnding applied to the input, then to its own result; the
\* results are kept in sink.
StripNewLineEnding ==
    /\ Len(sink) < MaxStrips
    /\ sink' = Append(sink, stripNewLineEnding(IF sink = <<>> THEN bufs[1]
                                               ELSE sink[Len(sink)]))
    /\ UNCHANGED <<logs, arrays, bufs, failed, fnCalls, closeCalls, thr, ncalls,
                   hist, last>>

NextStrip == StripNewLineEnding

SpecStrip == InitStrip /\ [][NextStrip]_vars

\* s ends with two line terminators.
EndsWithTwo(s) == Len(s) >= 2 /\ s[Len(s)] = "\n" /\ s[Len(s) - 1] = "\n"

\* C15 as stated: for every byte string s, stripNewLineEnding applied twice
\* gives what it gives applied once.
C15_StripIsIdempotent == Len(sink) >= 2 => sink[2] = sink[1]

\* C15 witness: the function was applied twice to a string that ends with two
\* line terminators, and the second application removed one more.
C15_Witness ==
    /\ Len(sink) >= 2
    /\ EndsWithTwo(bufs[1])
    /\ Len(sink[2]) = Len(sink[1]) - 1

\* C15 amended: stripNewLineEnding removes one trailing line terminator and
\* no more, so applied twice it gives what it gives applied once exactly for
\* the strings that do not end with two line terminators.
C15_StripsOneTerminator ==
    /\ Len(sink) >= 1 =>
          sink[1] = (IF bufs[1] # <<>> /\ bufs[1][Len(bufs[1])] = "\n"
                     THEN SubSeq(bufs[1], 1, Len(bufs[1]) - 1) ELSE bufs[1])
    /\ Len(sink) >= 2 => (sink[2] = sink[1] <=> ~EndsWithTwo(bufs[1]))

----------------------------------------------------------------------------
(* The no-format methods with several operands *)

MaxOperands == 2
MaxSprints == 1

\* Operands of a no-format call: two strings and a value that is not a
\* string, each with the text its default format gives.
Operands == {[str |-> TRUE, text |-> "Hello"], [str |-> TRUE, text |-> "World"],
             [str |-> FALSE, text |-> "1"]}

OperandLists == UNION {[1..k -> Operands] : k \in 0..MaxOperands}

\* Mutant of operandSep: a space between every two operands.
operandSep_always(a, b) == <<" ">>

\* fmt.Sprint adds a space between operands when neither is a string.
operandSep(a, b) == IF ~a.str /\ ~b.str THEN <<" ">> ELSE <<>>

\* fmt.Sprint(a...).
RECURSIVE fmtSprint(_)
fmtSprint(a) ==
    IF a = <<>> THEN <<>>
    ELSE IF Len(a) = 1 THEN <<a[1].text>>
    ELSE <<a[1].text>> \o operandSep(a[1], a[2]) \o fmtSprint(Tail(a))

\* Debug, Warn or Error of loglg (Log.sprint) and of zaplg (the embedded
\* SugaredLogger) with operands a.
CallSprint(i, m, a) ==
    /\ logs[i].kind \in {"loglg", "zaplg"}
    /\ m \in {"Debug", "Warn", "Error"}
    /\ ncalls < MaxSprints
    /\ ncalls' = ncalls + 1
    /\ LET eff == IF logs[i].kind = "loglg"
                  THEN loglg_Leveled(logs[i], m, fmtSprint(a))
                  ELSE zaplg_Leveled(logs[i], m, fmtSprint(a))
       IN  /\ bufs' = [bufs EXCEPT ![Writer(logs[i])] = @ \o BytesOf(eff.lines)]
           /\ last' = [a |-> a] @@ Returned(m, i, ncalls + 1, FALSE, nil, eff.lines,
                                             <<>>, <<>>, 0, 0)
    /\ UNCHANGED <<logs, arrays, sink, failed, fnCalls, closeCalls, thr, hist>>

InitSprint ==
    \E root \in {loglg_NewWith(1, FALSE, lv, c) : lv \in BOOLEAN, c \in BOOLEAN}
                \cup {zaplg_NewWith(1, f, TRUE, c, 0) :
                          f \in {"text", "json"}, c \in BOOLEAN} :
        InitRoot(root)

NextSprint ==
    \E i \in 1..Len(logs), m \in {"Debug", "Warn", "Error"}, a \in OperandLists :
        CallSprint(i, m, a)

SpecSprint == InitSprint /\ [][NextSprint]_vars

\* The operands' texts, in order.
Texts(a) == [n \in 1..Len(a) |-> a[n].text]

\* The places where an operand that is not a string follows another.
NonStringPairs(a) == {n \in 1..(Len(a) - 1) : ~a[n].str /\ ~a[n + 1].str}

IsSpace(tok) == tok = " "

NotSpace(tok) == tok # " "

\* C16 as stated: a no-format call with several operands emits them
\* concatenated, with nothing between them.
C16_SprintConcatenates ==
    last.op \in {"Debug", "Warn", "Error"} =>
        /\ Len(last.lines) = 1
        /\ last.lines[1].msg = Texts(last.a)
        /\ Contains(last.lines[1].bytes, Texts(last.a))

\* C16 witness: Debug(1, 1) emitted a line whose message is "1 1".
C16_Witness ==
    /\ last.op = "Debug"
    /\ Len(last.a) = 2 /\ ~last.a[1].str /\ ~last.a[2].str
    /\ Len(last.lines) = 1
    /\ Contains(last.lines[1].bytes, <<last.a[1].text, " ", last.a[2].text>>)

\* C16 amended: a no-format call with several operands emits one line whose
\* message is the operands in order, with a space between two operands
\* exactly when neither is a string and nothing between them otherwise;
\* Debug("Hello", "World") emits HelloWorld.
C16_SprintSpacesNonStrings ==
    last.op \in {"Debug", "Warn", "Error"} =>
        /\ Len(last.lines) = 1
        /\ LET msg == last.lines[1].msg
           IN  /\ SelectSeq(msg, NotSpace) = Texts(last.a)
               /\ Len(SelectSeq(msg, IsSpace)) = Cardinality(NonStringPairs(last.a))
               /\ \A n \in 1..Len(msg) :
                     msg[n] = " " => /\ n > 1 /\ n < Len(msg)
                                     /\ msg[n - 1] = "1"
                                     /\ msg[n + 1] = "1"
               /\ Contains(last.lines[1].bytes, msg)
        /\ (\A n \in 1..Len(last.a) : last.a[n].str) =>
               last.lines[1].msg = Texts(last.a)

----------------------------------------------------------------------------
(* A writer that fails *)

\* What a Write of p can do: take all of p, take none of it and fail, or take
\* the first byte and fail.
WriteOutcomes == {"all", "none", "short"}

ErrWrite == [nil |-> FALSE, msg |-> <<"write failed">>]

\* io.Writer.Write(p) on a writer whose content is buf.
writerWrite(buf, p, outcome) ==
    IF outcome = "all" \/ p = <<>> THEN [buf |-> buf \o p, err |-> nil]
    ELSE IF outcome = "none" THEN [buf |-> buf, err |-> ErrWrite]
    ELSE [buf |-> Append(buf, Head(p)), err |-> ErrWrite]

\* Mutant of raisedTo: the write error reaches the caller.
raisedTo_propagates(l, err) == err

\* What the caller of a method gets of the write error: the methods have no
\* result, and `_ = l.impl.Output(...)` drops it.
raisedTo(l, err) == nil

\* The effect of method m with argument arg on a Log that writes directly.
directEffect(l, m, arg) ==
    IF m \in LeveledMethods
    THEN IF l.kind = "loglg" THEN loglg_Leveled(l, m, arg)
         ELSE IF l.kind = "zaplg" THEN zaplg_Leveled(l, m, arg)
         ELSE sloglg_Leveled(l, m, arg)
    ELSE IF m = "WarnIfError"
    THEN IF l.kind = "loglg" THEN loglg_WarnIfError(l, arg)
         ELSE IF l.kind = "zaplg" THEN zaplg_WarnIfError(l, arg)
         ELSE sloglg_WarnIfError(l, arg)
    ELSE IF m = "WarnIfFuncError"
    THEN IF l.kind = "loglg" THEN loglg_WarnIfFuncError(l, arg)
         ELSE IF l.kind = "zaplg" THEN zaplg_WarnIfFuncError(l, arg)
         ELSE sloglg_WarnIfFuncError(l, arg)
    ELSE IF l.kind = "loglg" THEN loglg_WarnIfCloseError(l, arg)
         ELSE IF l.kind = "zaplg" THEN zaplg_WarnIfCloseError(l, arg)
         ELSE sloglg_WarnIfCloseError(l, arg)

\* Method m on logs[i], whose writer answers the Write with outcome.  hist
\* keeps the outcome of each call's Write.
CallOnWriter(i, m, arg, outcome) ==
    /\ logs[i].kind \in {"loglg", "zaplg", "sloglg"}
    /\ m \in MethodsOf(logs[i].kind) \cup WarnIfMethods
    /\ ncalls < MaxCalls
    /\ ncalls' = ncalls + 1
    /\ LET eff == directEffect(logs[i], m, arg)
           w == Writer(logs[i])
           res == IF eff.lines = <<>> THEN [buf |-> bufs[w], err |-> nil]
                  ELSE writerWrite(bufs[w], BytesOf(eff.lines), outcome)
           a == IF m \in LeveledMethods THEN nil ELSE arg
       IN  /\ bufs' = [bufs EXCEPT ![w] = res.buf]
           /\ fnCalls' = fnCalls + eff.fn
           /\ closeCalls' = closeCalls + eff.close
           /\ hist' = Append(hist, IF eff.lines = <<>> THEN "nowrite" ELSE outcome)
           /\ last' = [werr |-> res.err, raised |-> raisedTo(logs[i], res.err)]
                       @@ Returned(m, i, ncalls + 1, a.nil, Observed(m, a), eff.lines,
                                   <<>>, <<>>, eff.fn, eff.close)
    /\ UNCHANGED <<logs, arrays, sink, failed, thr>>

InitWriter ==
    /\ \E root \in {loglg_NewWith(1, FALSE, TRUE, FALSE),
                     zaplg_NewWith(1, "text", TRUE, FALSE, 0),
                     sloglg_NewWith(1, "text", TRUE, FALSE, 0)} :
            logs = <<root>>
    /\ arrays = <<>>
    /\ bufs = << <<>> >>
    /\ sink = <<>>
    /\ failed = FALSE
    /\ fnCalls = 0
    /\ closeCalls = 0
    /\ thr = [t \in Threads |-> Idle]
    /\ ncalls = 0
    /\ hist = <<>>
    /\ last = NoOp

NextWriter ==
    \/ \E i \in 1..Len(logs), m \in LeveledMethods, msg \in Msgs, o \in WriteOutcomes :
            CallOnWriter(i, m, msg, o)
    \/ \E i \in 1..Len(logs), err \in Errs \cup {nil}, o \in WriteOutcomes :
            CallOnWriter(i, "WarnIfError", err, o)
    \/ \E i \in 1..Len(logs), m \in {"WarnIfFuncError", "WarnIfCloseError"},
           fn \in Fns, o \in WriteOutcomes :
            CallOnWriter(i, m, fn, o)

SpecWriter == InitWriter /\ [][NextWriter]_vars

\* C17: whatever the writer answers, a leveled or WarnIf* call returns with
\* nothing for its caller, leaves every Log as it was, and, when it has
\* something to log, hands its one line to the writer, also after failed
\* writes; what the writer took is all that reaches the output.
C17_WriteFailureIsSwallowed ==
    [][(last' # last /\ last'.op \in LeveledMethods \cup WarnIfMethods) =>
          /\ last'.raised = nil
          /\ logs' = logs
          /\ ncalls' = ncalls + 1
          /\ (last'.op \in LeveledMethods \/ last'.err # nil) =>
                /\ Len(last'.lines) = 1
                /\ hist'[Len(hist')] \in WriteOutcomes
                /\ \E o \in WriteOutcomes :
                      /\ o = hist'[Len(hist')]
                      /\ bufs' = [bufs EXCEPT ![Writer(logs[last'.recv])] =
                                     writerWrite(@, last'.lines[1].bytes, o).buf]
                /\ last'.werr # nil <=> hist'[Len(hist')] # "all"
          /\ ~(last'.op \in LeveledMethods \/ last'.err # nil) =>
                last'.lines = <<>> /\ bufs' = bufs]_vars

\* C17 witness: a call whose write failed has returned, and the call after
\* it, on the same Log, wrote its whole line.
C17_Witness ==
    /\ Len(hist) = 2
    /\ hist[1] = "none"
    /\ hist[2] = "all"
    /\ last.call = 2
    /\ last.werr = nil
    /\ Len(last.lines) = 1
    /\ bufs[Writer(logs[last.recv])] = last.lines[1].bytes

----------------------------------------------------------------------------
(* Construction with a format selector *)

\* Format arguments: the three named by the adapters' constants, and "test",
\* which TestFactoryFn passes.
Formats == {"text", "json", "testing", "test"}

\* The formats NewWith of each adapter names as its own.
Recognised(kind) ==
    IF kind = "zaplg" THEN {"json", "text", "testing"} ELSE {"text", "json"}

\* sloglg.NewWith: `default: panic("invalid log format: " + format)`.
sloglg_NewWithPanics(format) == format \notin {"text", "json"}

\* zaplg.NewWith has no failing path: both switches have a default.
zaplg_NewWithPanics(format) == FALSE

Constructed(kind, format, panicked) ==
    [op |-> "NewWith", recv |-> 0, call |-> 0, kind |-> kind, format |-> format,
     panicked |-> panicked]

\* zaplg.NewWith or sloglg.NewWith on writer 1, as the program's first step.
NewWith(kind, format, caller) ==
    /\ logs = <<>>
    /\ LET panics == IF kind = "zaplg" THEN zaplg_NewWithPanics(format)
                     ELSE sloglg_NewWithPanics(format)
       IN  /\ logs' = IF panics THEN logs
                      ELSE IF kind = "zaplg"
                      THEN <<zaplg_NewWith(1, format, TRUE, caller, 0)>>
                      ELSE <<sloglg_NewWith(1, format, TRUE, caller, 0)>>
           /\ last' = Constructed(kind, format, panics)
    /\ UNCHANGED <<arrays, bufs, sink, failed, fnCalls, closeCalls, thr, ncalls, hist>>

InitFormat ==
    /\ logs = <<>>
    /\ arrays = <<>>
    /\ bufs = << <<>> >>
    /\ sink = <<>>
    /\ failed = FALSE
    /\ fnCalls = 0
    /\ closeCalls = 0
    /\ thr = [t \in Threads |-> Idle]
    /\ ncalls = 0
    /\ hist = << <<>> >>
    /\ last = NoOp

NextFormat ==
    \/ \E kind \in {"zaplg", "sloglg"}, format \in Formats, caller \in BOOLEAN :
            NewWith(kind, format, caller)
    \/ \E i \in 1..Len(logs), m \in LeveledMethods, msg \in Msgs : CallLeveled(i, m, msg)
    \/ \E i \in 1..Len(logs), err \in Errs \cup {nil} : CallWarnIfError(i, err)

SpecFormat == InitFormat /\ [][NextFormat]_vars

\* The format a Log was built with.
FormatOf(l) == IF l.kind = "zaplg" THEN l.z.format ELSE l.h.format

\* C18: NewWith with a format that is not one of the adapter's own fails at
\* once, and no Log built with such a format exists to emit anything.
C18_InvalidFormatFailsFast ==
    /\ \A i \in 1..Len(logs) : FormatOf(logs[i]) \in Recognised(logs[i].kind)
    /\ (last.op = "NewWith" /\ last.format \notin Recognised(last.kind)) =>
          last.panicked /\ logs = <<>>

\* C18 witness: a zaplg Log built with format "test" has emitted a line, in
\* the console form with the level in lower case.
C18_Witness ==
    /\ Len(logs) = 1
    /\ logs[1].kind = "zaplg"
    /\ FormatOf(logs[1]) = "test"
    /\ last.op = "Warn"
    /\ Len(last.lines) = 1
    /\ Has(last.lines[1].bytes, "warn")
    /\ bufs[1] # <<>>

\* What C18 says, for sloglg: this part holds.
C18_SloglgFailsFast ==
    /\ \A i \in 1..Len(logs) :
          logs[i].kind = "sloglg" => FormatOf(logs[i]) \in {"text", "json"}
    /\ (last.op = "NewWith" /\ last.kind = "sloglg"
           /\ last.format \notin {"text", "json"}) =>
          last.panicked /\ logs = <<>> /\ bufs = << <<>> >>

----------------------------------------------------------------------------
(* The package-level logger: filter, Levels, Enable, Disable, Debugf, Errorf.
   logs[1] is the package's state, bufs[1] the destination given to Use.
   hist is a ghost: the arguments of the latest Levels call and whether the
   latest of Enable and Disable was Enable. *)

MaxLgCalls == 4
MaxLevels == 2

levelEnabled == 1
LevelDebug == 2
levelWarn == 4
LevelError == 8
LevelAll == 14

\* The bits of a Level (uint8).
Pow2 == {1, 2, 4, 8, 16, 32, 64, 128}

OnBits(x) == {b \in Pow2 : (x \div b) % 2 = 1}

RECURSIVE SumBits(_)
SumBits(S) == IF S = {} THEN 0 ELSE LET b == CHOOSE c \in S : TRUE IN b + SumBits(S \ {b})

\* x | y, x &^ y and x & y on uint8.
bitOr(x, y) == SumBits(OnBits(x) \cup OnBits(y))

bitAndNot(x, y) == SumBits(OnBits(x) \ OnBits(y))

bitAnd(x, y) == SumBits(OnBits(x) \cap OnBits(y))

\* for _, lvl := range levels { filter = filter | lvl }
RECURSIVE orEach(_, _)
orEach(f, levels) ==
    IF levels = <<>> THEN f ELSE orEach(bitOr(f, Head(levels)), Tail(levels))

\* Mutant of filterAfterLevels: the levels are not cleared first.
filterAfterLevels_noClear(f, levels) == orEach(f, levels)

\* Levels: filter = filter &^ LevelAll, then each level is or-ed in.
filterAfterLevels(f, levels) == orEach(bitAndNot(f, LevelAll), levels)

\* Mutant of filterAfterDisable: Disable clears the whole filter.
filterAfterDisable_all(f) == 0

\* Disable: filter = filter &^ levelEnabled.
filterAfterDisable(f) == bitAndNot(f, levelEnabled)

\* allowed(level): filter&levelEnabled > 0 && filter&level > 0.
allowed(f, level) == bitAnd(f, levelEnabled) > 0 /\ bitAnd(f, level) > 0

\* The exported level constants, which a caller passes to Levels.
LevelArgs == {LevelDebug, LevelError, LevelAll}

LevelLists == UNION {[1..k -> LevelArgs] : k \in 0..MaxLevels}

\* var filter = levelEnabled | LevelDebug | levelWarn | LevelError
InitLg ==
    /\ logs = <<[kind |-> "lg",
                 filter |-> bitOr(bitOr(levelEnabled, LevelDebug),
                                  bitOr(levelWarn, LevelError))]>>
    /\ arrays = <<>>
    /\ bufs = << <<>> >>
    /\ sink = <<>>
    /\ failed = FALSE
    /\ fnCalls = 0
    /\ closeCalls = 0
    /\ thr = [t \in Threads |-> Idle]
    /\ ncalls = 0
    /\ hist = [levels |-> <<LevelDebug, levelWarn, LevelError>>, on |-> TRUE]
    /\ last = NoOp

\* The summary of a returned call of the package: pre is the filter the call
\* found.
LgReturned(op, level) ==
    [op |-> op, recv |-> 1, call |-> ncalls + 1, level |-> level,
     pre |-> logs[1].filter]

LgStep(op, level) ==
    /\ logs[1].kind = "lg"
    /\ ncalls < MaxLgCalls
    /\ ncalls' = ncalls + 1
    /\ last' = LgReturned(op, level)
    /\ UNCHANGED <<arrays, sink, failed, fnCalls, closeCalls, thr>>

Enable ==
    /\ LgStep("Enable", 0)
    /\ logs' = [logs EXCEPT ![1].filter = bitOr(@, levelEnabled)]
    /\ hist' = [hist EXCEPT !.on = TRUE]
    /\ UNCHANGED bufs

Disable ==
    /\ LgStep("Disable", 0)
    /\ logs' = [logs EXCEPT ![1].filter = filterAfterDisable(@)]
    /\ hist' = [hist EXCEPT !.on = FALSE]
    /\ UNCHANGED bufs

Levels(levels) ==
    /\ LgStep("Levels", 0)
    /\ logs' = [logs EXCEPT ![1].filter = filterAfterLevels(@, levels)]
    /\ hist' = [hist EXCEPT !.levels = levels]
    /\ UNCHANGED bufs

\* log(locked, calldepth, level, format): nothing if the level is not
\* allowed; otherwise one line (E for LevelError, I otherwise, the time, the
\* call site, the message) to the destination.  ExcludePkgs is empty.
log(op, level, format) ==
    /\ LgStep(op, level)
    /\ bufs' = IF ~allowed(logs[1].filter, level) THEN bufs
               ELSE [bufs EXCEPT ![1] = @ \o <<IF level = LevelError THEN "E" ELSE "I",
                                                "<time>", "user">>
                                             \o Sprintf(format) \o <<"\n">>]
    /\ UNCHANGED <<logs, hist>>

Debugf(format) == log("Debugf", LevelDebug, format)

Errorf(format) == log("Errorf", LevelError, format)

NextLg ==
    \/ Enable
    \/ Disable
    \/ \E levels \in LevelLists : Levels(levels)
    \/ Debugf(<<"a">>)
    \/ Errorf(<<"a">>)

SpecLg == InitLg /\ [][NextLg]_vars

\* Level L is one of the levels given to the latest Levels call.
Configured(L) ==
    \E n \in 1..Len(hist.levels) : hist.levels[n] \in {L, LevelAll}

\* The call wrote one line, or nothing.
WroteLine == Len(bufs'[1]) > Len(bufs[1]) /\ SubSeq(bufs'[1], 1, Len(bufs[1])) = bufs[1]

C20_DisableEnable ==
    [][/\ (last' # last /\ last'.op \in {"Debugf", "Errorf"} /\ ~hist.on) => bufs' = bufs
       /\ (last' # last /\ last'.op = "Disable") =>
            /\ bitAnd(logs'[1].filter, LevelAll) = bitAnd(logs[1].filter, LevelAll)
            /\ \A L \in {LevelDebug, levelWarn, LevelError} : ~allowed(logs'[1].filter, L)
       /\ (last' # last /\ last'.op = "Enable") =>
            /\ bitAnd(logs'[1].filter, LevelAll) = bitAnd(logs[1].filter, LevelAll)
            /\ \A L \in {LevelDebug, levelWarn, LevelError} :
                  allowed(logs'[1].filter, L) <=> bitAnd(logs[1].filter, L) > 0
            /\ (last.op = "Disable" /\ bitAnd(last.pre, levelEnabled) > 0) =>
                  logs'[1].filter = last.pre]_vars

\* C20 witness: with Levels(LevelDebug) in force and logging enabled again,
\* the fourth call, a Debugf, wrote its line to an empty destination.
C20_Witness ==
    /\ last.op = "Debugf"
    /\ hist.levels = <<LevelDebug>>
    /\ hist.on
    /\ logs[1].filter = bitOr(levelEnabled, LevelDebug)
    /\ bufs[1] = <<"I", "<time>", "user", "a", "\n">>
    /\ ncalls = 4

----------------------------------------------------------------------------
(* The package-level logger: ExcludePkgs.  Names are sequences of
   characters; logs[1].ExcludePkgs is the exported variable. *)

MaxExclCalls == 3
MaxExcl == 1

\* Packages that log: a/p, its sub-package a/p/s, a/pq and b.
PkgP == <<"a", "/", "p">>
PkgPS == <<"a", "/", "p", "/", "s">>
PkgPQ == <<"a", "/", "p", "q">>
PkgB == <<"b">>

CallerPkgs == {PkgP, PkgPS, PkgPQ, PkgB}

\* runtime.FuncForPC(pc).Name() of a function F of package pkg.
FuncName(pkg) == pkg \o <<".", "F">>

\* The values assigned to ExcludePkgs.
ExcludeLists == UNION {[1..k -> {PkgP, PkgB}] : k \in 0..MaxExcl}

\* strings.LastIndex and strings.IndexRune, 1-based; 0 if absent.
lastIndex(str, c) ==
    IF \E n \in 1..Len(str) : str[n] = c
    THEN CHOOSE n \in 1..Len(str) : str[n] = c /\ \A k \in (n + 1)..Len(str) : str[k] # c
    ELSE 0

indexRune(str, c) ==
    IF \E n \in 1..Len(str) : str[n] = c
    THEN CHOOSE n \in 1..Len(str) : str[n] = c /\ \A k \in 1..(n - 1) : str[k] # c
    ELSE 0

\* fnNameParts[len(fnNameParts)-1]: what follows the last "/".
lastPart(fnName) == SubSeq(fnName, lastIndex(fnName, "/") + 1, Len(fnName))

\* pkgName: fnName with its last part cut at the first ".".
pkgNameOf(fnName) ==
    SubSeq(fnName, 1, lastIndex(fnName, "/"))
    \o SubSeq(lastPart(fnName), 1, indexRune(lastPart(fnName), ".") - 1)

\* strings.Index(pkgName, exclPkg) == 0.
indexIsZero(pkgName, exclPkg) ==
    Len(exclPkg) <= Len(pkgName) /\ SubSeq(pkgName, 1, Len(exclPkg)) = exclPkg

\* The loop over exclPkgs returns before anything is written.
excluded(exclPkgs, fnName) ==
    \E n \in 1..Len(exclPkgs) : indexIsZero(pkgNameOf(fnName), exclPkgs[n])

InitExcl ==
    /\ logs = <<[kind |-> "lg",
                 filter |-> bitOr(bitOr(levelEnabled, LevelDebug),
                                  bitOr(levelWarn, LevelError)),
                 ExcludePkgs |-> <<>>]>>
    /\ arrays = <<>>
    /\ bufs = << <<>> >>
    /\ sink = <<>>
    /\ failed = FALSE
    /\ fnCalls = 0
    /\ closeCalls = 0
    /\ thr = [t \in Threads |-> Idle]
    /\ ncalls = 0
    /\ hist = [levels |-> <<LevelDebug, levelWarn, LevelError>>, on |-> TRUE]
    /\ last = NoOp

ExclStep(op, level, fnName) ==
    /\ ncalls < MaxExclCalls
    /\ ncalls' = ncalls + 1
    /\ last' = [op |-> op, recv |-> 1, call |-> ncalls + 1, level |-> level,
                fnName |-> fnName]
    /\ UNCHANGED <<arrays, sink, failed, fnCalls, closeCalls, thr>>

\* lg.ExcludePkgs = list.
SetExcludePkgs(list) ==
    /\ ExclStep("ExcludePkgs", 0, <<>>)
    /\ logs' = [logs EXCEPT ![1].ExcludePkgs = list]
    /\ UNCHANGED <<bufs, hist>>

\* Disable and Enable, as above, in this specification.
ExclSwitch(on) ==
    /\ ExclStep(IF on THEN "Enable" ELSE "Disable", 0, <<>>)
    /\ logs' = [logs EXCEPT ![1].filter = IF on THEN bitOr(@, levelEnabled)
                                           ELSE filterAfterDisable(@)]
    /\ hist' = [hist EXCEPT !.on = on]
    /\ UNCHANGED bufs

\* log called for function fnName: nothing if the level is not allowed or
\* the package is excluded; otherwise one line with the short function name.
logFrom(op, level, format, fnName) ==
    /\ ExclStep(op, level, fnName)
    /\ bufs' = IF ~allowed(logs[1].filter, level)
                  \/ excluded(logs[1].ExcludePkgs, fnName) THEN bufs
               ELSE [bufs EXCEPT ![1] = @ \o <<IF level = LevelError THEN "E" ELSE "I",
                                                "<time>", "user">>
                                             \o lastPart(fnName)
                                             \o Sprintf(format) \o <<"\n">>]
    /\ UNCHANGED <<logs, hist>>

NextExcl ==
    \/ \E list \in ExcludeLists : SetExcludePkgs(list)
    \/ \E on \in BOOLEAN : ExclSwitch(on)
    \/ \E pkg \in CallerPkgs : logFrom("Debugf", LevelDebug, <<"a">>, FuncName(pkg))
    \/ logFrom("Errorf", LevelError, <<"a">>, FuncName(PkgP))

SpecExcl == InitExcl /\ [][NextExcl]_vars

\* Package pkg is listed in list, or is a sub-package of a listed package.
ListedOrSub(list, pkg) ==
    \E n \in 1..Len(list) :
        \/ pkg = list[n]
        \/ indexIsZero(pkg, list[n] \o <<"/">>)

\* The package of the function a log call was made from.
CallerPkg(r) == SubSeq(r.fnName, 1, Len(r.fnName) - 2)

\* C21: a message from a package that is listed in ExcludePkgs, or is a
\* sub-package of a listed one, is not written; a message from any other
\* package is written if its level is allowed; with the list empty every
\* allowed message is written.
C21_ExcludePkgs ==
    [][(last' # last /\ last'.op \in {"Debugf", "Errorf"}) =>
          /\ WroteLine <=> (/\ allowed(logs[1].filter, last'.level)
                             /\ ~ListedOrSub(logs[1].ExcludePkgs, CallerPkg(last')))
          /\ ~WroteLine => bufs' = bufs]_vars

\* C21 witness: with only a/p listed and logging enabled, a Debugf from
\* package a/pq wrote nothing.
C21_Witness ==
    /\ last.op = "Debugf"
    /\ CallerPkg(last) = PkgPQ
    /\ logs[1].ExcludePkgs = <<PkgP>>
    /\ allowed(logs[1].filter, LevelDebug)
    /\ ncalls = 2
    /\ bufs[1] = <<>>

\* What C21 says, for callers other than a/pq: this part holds.
C21_ExceptNamePrefix ==
    [][(last' # last /\ last'.op \in {"Debugf", "Errorf"}
          /\ CallerPkg(last') # PkgPQ) =>
          /\ WroteLine <=> (/\ allowed(logs[1].filter, last'.level)
                             /\ ~ListedOrSub(logs[1].ExcludePkgs, CallerPkg(last')))
          /\ ~WroteLine => bufs' = bufs]_vars

----------------------------------------------------------------------------
(* The package-level logger, statement by statement, with two goroutines.
   logs[1] holds filter, Mu, wOut, wErr and the exit status of the process
   (0 while it runs); bufs is <<os.Stdout, os.Stderr, the buffer given to
   Use>>.  Enable and Disable read and write filter without Mu; each
   assignment to filter is a load and a store.  hist lists the calls that
   have returned. *)

MaxStarts == 3

Stdout == 1
Stderr == 2
Dest == 3

\* The Levels arguments of this specification.
ConcLevelLists == {<<>>, <<LevelError>>}

LgOps == {"Enable", "Disable", "Levels", "Use", "Debugf", "Errorf", "Fatalf"}

\* Each goroutine logs a message of its own.
MsgOf(t) == IF t = "t1" THEN "a" ELSE "b"

\* Mutant of fatalfLocked: Fatalf calls log(false, ...).
fatalfLocked_false == FALSE

\* Fatalf calls log(true, 1, LevelError, msg): Mu is already held.
fatalfLocked == TRUE

\* Mutant of muFree: Mu is not honoured.
muFree_always(g) == TRUE

\* Mu.Lock() returns only when Mu is free.
muFree(g) == g.Mu = "free"

InitLgc ==
    /\ logs = <<[kind |-> "lg",
                 filter |-> bitOr(bitOr(levelEnabled, LevelDebug),
                                  bitOr(levelWarn, LevelError)),
                 Mu |-> "free", wOut |-> Stdout, wErr |-> Stderr, exited |-> 0]>>
    /\ arrays = <<>>
    /\ bufs = << <<>>, <<>>, <<>> >>
    /\ sink = <<>>
    /\ failed = FALSE
    /\ fnCalls = 0
    /\ closeCalls = 0
    /\ thr = [t \in Threads |-> Idle]
    /\ ncalls = 0
    /\ hist = <<>>
    /\ last = NoOp

\* A goroutine inside call op.  f is the value of filter it loaded, w the
\* writer it is writing to.  Ghosts: conc, another call was running when
\* this one began; sawAllowed, Fatalf found the error level allowed;
\* toStderr, Fatalf wrote the message to os.Stderr.
LgcStarted(t, op, levels) ==
    [pc |-> IF op \in {"Enable", "Disable"} THEN "load"
            ELSE IF op \in {"Debugf", "Errorf"} THEN "check"
            ELSE "lock",
     op |-> op, levels |-> levels, arg |-> levels,
     level |-> IF op = "Debugf" THEN LevelDebug ELSE LevelError,
     f |-> 0, w |-> 0, wrote |-> FALSE, sawAllowed |-> FALSE, toStderr |-> FALSE,
     call |-> ncalls + 1,
     conc |-> \E u \in Threads \ {t} : thr[u].pc # "idle"]

\* The summary of a returned call.
LgcReturned(t) ==
    [op |-> thr[t].op, recv |-> 1, call |-> thr[t].call, arg |-> thr[t].arg,
     level |-> thr[t].level, wrote |-> thr[t].wrote, w |-> thr[t].w,
     sawAllowed |-> thr[t].sawAllowed, toStderr |-> thr[t].toStderr,
     conc |-> thr[t].conc, t |-> t]

LgcStart(t, op, levels) ==
    /\ logs[1].exited = 0
    /\ CanStart(t)
    /\ ncalls < MaxStarts
    /\ ncalls' = ncalls + 1
    /\ thr' = [thr EXCEPT ![t] = LgcStarted(t, op, levels)]
    /\ UNCHANGED <<logs, arrays, bufs, sink, failed, fnCalls, closeCalls, hist, last>>

\* The call returns.
LgcReturn(t) ==
    /\ thr' = [thr EXCEPT ![t] = Idle]
    /\ hist' = Append(hist, LgcReturned(t))
    /\ last' = LgcReturned(t)

\* Mu.Lock(), in Levels, Use, Fatalf, and in log when locked is false.
LgcLock(t) ==
    /\ logs[1].exited = 0
    /\ thr[t].pc = "lock"
    /\ muFree(logs[1])
    /\ logs' = [logs EXCEPT ![1].Mu = t]
    /\ thr' = [thr EXCEPT ![t].pc = IF thr[t].op = "Levels" THEN "clear_load"
                                    ELSE IF thr[t].op = "Use" THEN "assign"
                                    ELSE IF thr[t].op = "Fatalf" /\ thr[t].f = 0 THEN "fcheck"
                                    ELSE "write1",
                          ![t].f = 1]
    /\ UNCHANGED <<arrays, bufs, sink, failed, fnCalls, closeCalls, ncalls, hist, last>>

\* The read of filter in an assignment to filter.
LgcLoad(t) ==
    /\ logs[1].exited = 0
    /\ thr[t].pc \in {"load", "clear_load", "or_load"}
    /\ thr' = [thr EXCEPT ![t].f = logs[1].filter,
                          ![t].pc = IF thr[t].pc = "load" THEN "store"
                                    ELSE IF thr[t].pc = "clear_load" THEN "clear_store"
                                    ELSE "or_store"]
    /\ UNCHANGED <<logs, arrays, bufs, sink, failed, fnCalls, closeCalls, ncalls, hist, last>>

\* The write of filter: filter | levelEnabled (Enable), filter &^
\* levelEnabled (Disable), filter &^ LevelAll and filter | lvl (Levels).
LgcStore(t) ==
    /\ logs[1].exited = 0
    /\ thr[t].pc \in {"store", "clear_store", "or_store"}
    /\ logs' = [logs EXCEPT ![1].filter =
                    IF thr[t].pc = "clear_store" THEN bitAndNot(thr[t].f, LevelAll)
                    ELSE IF thr[t].pc = "or_store" THEN bitOr(thr[t].f, Head(thr[t].levels))
                    ELSE IF thr[t].op = "Enable" THEN bitOr(thr[t].f, levelEnabled)
                    ELSE filterAfterDisable(thr[t].f)]
    /\ IF thr[t].pc = "store"
       THEN LgcReturn(t)
       ELSE /\ thr' = [thr EXCEPT
                         ![t].levels = IF thr[t].pc = "or_store" THEN Tail(@) ELSE @,
                         ![t].pc = IF (IF thr[t].pc = "or_store" THEN Tail(thr[t].levels)
                                       ELSE thr[t].levels) = <<>>
                                   THEN "unlock" ELSE "or_load"]
            /\ UNCHANGED <<hist, last>>
    /\ UNCHANGED <<arrays, bufs, sink, failed, fnCalls, closeCalls, ncalls>>

\* Use: wOut = dest; wErr = dest.
LgcAssign(t) ==
    /\ logs[1].exited = 0
    /\ thr[t].pc = "assign"
    /\ logs' = [logs EXCEPT ![1].wOut = Dest, ![1].wErr = Dest]
    /\ thr' = [thr EXCEPT ![t].pc = "unlock"]
    /\ UNCHANGED <<arrays, bufs, sink, failed, fnCalls, closeCalls, ncalls, hist, last>>

\* Whether the destination is one of the standard streams, as Fatalf asks.
isStd(g) == g.wOut \in {Stdout, Stderr}

\* `if !allowed(level) { return }` in log (check, lcheck) and
\* `if allowed(LevelError)` in Fatalf (fcheck).
LgcCheck(t) ==
    /\ logs[1].exited = 0
    /\ thr[t].pc \in {"check", "fcheck", "lcheck"}
    /\ LET ok == allowed(logs[1].filter, thr[t].level)
       IN  IF thr[t].pc = "check" /\ ~ok
           THEN LgcReturn(t)
           ELSE /\ thr' = [thr EXCEPT ![t].sawAllowed = (@ \/ (thr[t].pc = "fcheck" /\ ok)),
                                      ![t].pc =
                              IF thr[t].pc = "check" THEN "lock"
                              ELSE IF thr[t].pc = "fcheck"
                              THEN (IF ok THEN "lcheck" ELSE "exit")
                              ELSE IF ok THEN (IF fatalfLocked THEN "write1" ELSE "lock")
                              ELSE IF isStd(logs[1]) THEN "exit" ELSE "stderr"]
                /\ UNCHANGED <<hist, last>>
    /\ UNCHANGED <<logs, arrays, bufs, sink, failed, fnCalls, closeCalls, ncalls>>

\* fmt.Fprintln(wErr, str) or fmt.Fprintln(wOut, str): the writer takes the
\* line in two parts.
LgcWrite(t) ==
    /\ logs[1].exited = 0
    /\ thr[t].pc \in {"write1", "write2"}
    /\ LET w == IF thr[t].pc = "write2" THEN thr[t].w
                ELSE IF thr[t].level = LevelError THEN logs[1].wErr ELSE logs[1].wOut
       IN  /\ bufs' = [bufs EXCEPT ![w] =
                          @ \o (IF thr[t].pc = "write1"
                                THEN <<IF thr[t].level = LevelError THEN "E" ELSE "I", "<time>">>
                                ELSE <<"user", MsgOf(t), "\n">>)]
           /\ thr' = [thr EXCEPT ![t].w = w,
                                 ![t].wrote = (thr[t].pc = "write2"),
                                 ![t].pc = IF thr[t].pc = "write1" THEN "write2"
                                           ELSE IF thr[t].op # "Fatalf" THEN "unlock"
                                           ELSE IF isStd(logs[1]) THEN "exit" ELSE "stderr"]
    /\ UNCHANGED <<logs, arrays, sink, failed, fnCalls, closeCalls, ncalls, hist, last>>

\* Fatalf: fmt.Fprintln(os.Stderr, msg).
LgcStderr(t) ==
    /\ logs[1].exited = 0
    /\ thr[t].pc = "stderr"
    /\ bufs' = [bufs EXCEPT ![Stderr] = @ \o <<MsgOf(t), "\n">>]
    /\ thr' = [thr EXCEPT ![t].pc = "exit", ![t].toStderr = TRUE]
    /\ UNCHANGED <<logs, arrays, sink, failed, fnCalls, closeCalls, ncalls, hist, last>>

\* Fatalf: os.Exit(1).  The deferred Mu.Unlock() does not run.
LgcExit(t) ==
    /\ logs[1].exited = 0
    /\ thr[t].pc = "exit"
    /\ logs' = [logs EXCEPT ![1].exited = 1]
    /\ last' = LgcReturned(t)
    /\ UNCHANGED <<arrays, bufs, sink, failed, fnCalls, closeCalls, thr, ncalls, hist>>

\* The deferred Mu.Unlock(), and the return.
LgcUnlock(t) ==
    /\ logs[1].exited = 0
    /\ thr[t].pc = "unlock"
    /\ logs' = [logs EXCEPT ![1].Mu = "free"]
    /\ LgcReturn(t)
    /\ UNCHANGED <<arrays, bufs, sink, failed, fnCalls, closeCalls, ncalls>>

\* The next statement of goroutine t.
LgcStep(t) ==
    \/ LgcLock(t)
    \/ LgcLoad(t)
    \/ LgcStore(t)
    \/ LgcAssign(t)
    \/ LgcCheck(t)
    \/ LgcWrite(t)
    \/ LgcStderr(t)
    \/ LgcExit(t)
    \/ LgcUnlock(t)

NextLgc ==
    \/ \E t \in Threads, op \in LgOps \ {"Levels"} : LgcStart(t, op, <<>>)
    \/ \E t \in Threads, levels \in ConcLevelLists : LgcStart(t, "Levels", levels)
    \/ \E t \in Threads : LgcStep(t)

SpecLgc == InitLgc /\ [][NextLgc]_vars

\* Fatalf among the calls that take Mu or change what Fatalf reads: Use,
\* Errorf and Disable.
NextFatal ==
    \/ \E t \in Threads, op \in {"Use", "Disable", "Errorf", "Fatalf"} :
            LgcStart(t, op, <<>>)
    \/ \E t \in Threads : LgcStep(t)

\* The Go scheduler runs every goroutine that can run.
SpecFatal ==
    InitLgc /\ [][NextFatal]_vars /\ \A t \in Threads : WF_vars(LgcStep(t))

\* A goroutine is inside Fatalf.
InFatalf == \E t \in Threads : thr[t].pc # "idle" /\ thr[t].op = "Fatalf"

\* bytes ends with tail.
EndsWith(bytes, tail) ==
    Len(bytes) >= Len(tail) /\ SubSeq(bytes, Len(bytes) - Len(tail) + 1, Len(bytes)) = tail

\* C22: a Fatalf call leads to process exit with status 1 whether or not the
\* error level is allowed, other goroutines using the package or not; the
\* process never exits with another status or from another call; and when
\* Fatalf found the error level allowed and the destination is neither
\* os.Stdout nor os.Stderr, the message has been written to os.Stderr by
\* then, and otherwise Fatalf has written nothing to os.Stderr.
C22_FatalfExits ==
    /\ InFatalf ~> logs[1].exited = 1
    /\ [](logs[1].exited \in {0, 1})
    /\ [][logs'[1].exited # logs[1].exited =>
            /\ logs'[1].exited = 1
            /\ last'.op = "Fatalf"
            /\ logs[1].Mu = last'.t
            /\ last'.toStderr <=> (last'.sawAllowed /\ ~isStd(logs[1]))
            /\ last'.toStderr => EndsWith(bufs[Stderr], <<MsgOf(last'.t), "\n">>)
            /\ ~last'.sawAllowed => ~last'.wrote]_vars

\* C22 witness: the process has exited from a Fatalf that began while another
\* call was running, logged its line to the buffer given to Use and wrote the
\* message to os.Stderr.
C22_Witness ==
    /\ logs[1].exited = 1
    /\ last.op = "Fatalf"
    /\ last.conc
    /\ last.wrote /\ last.w = Dest
    /\ last.toStderr
    /\ bufs[Stderr] = <<MsgOf(last.t), "\n">>

----------------------------------------------------------------------------
(* With and AddCallerSkip on the backend adapters zaplg and sloglg.  hist[i]
   is a ghost: the With calls and the caller skip that logs[i] was asked
   for, from construction on. *)

\* sloglg.Log.With: sl.With(key, val) adds the attribute to the handler's
\* list; the Log returned has no addCallerSkip set.
sloglg_WithLog(l, key, val) ==
    [kind |-> "sloglg",
     h |-> [l.h EXCEPT !.attrs = Append(@, keyVal(key, val))],
     addCallerSkip |-> 0]

\* Mutant of backend_AddCallerSkipLog: the fields are not carried over.
backend_AddCallerSkipLog_noFields(l, skip) ==
    IF l.kind = "zaplg"
    THEN [zaplg_AddCallerSkipLog(l, skip) EXCEPT !.kvs = NilArray]
    ELSE [sloglg_AddCallerSkipLog(l, skip) EXCEPT !.h.attrs = <<>>]

\* Log.AddCallerSkip of either adapter.
backend_AddCallerSkipLog(l, skip) ==
    IF l.kind = "zaplg" THEN zaplg_AddCallerSkipLog(l, skip)
    ELSE sloglg_AddCallerSkipLog(l, skip)

Asked(kvs, skip) == [kvs |-> kvs, skip |-> skip]

BackendWith(i, key, val) ==
    /\ logs[i].kind \in {"zaplg", "sloglg"}
    /\ Len(logs) < MaxLogs
    /\ IF logs[i].kind = "zaplg"
       THEN LET r == zaplg_With(arrays, logs[i], key, val)
            IN  /\ logs' = Append(logs, r.log)
                /\ arrays' = r.arrays
       ELSE /\ logs' = Append(logs, sloglg_WithLog(logs[i], key, val))
            /\ UNCHANGED arrays
    /\ hist' = Append(hist, Asked(Append(hist[i].kvs, keyVal(key, val)), hist[i].skip))
    /\ last' = [key |-> key, val |-> val] @@ Derived("With", i, Len(logs) + 1)
    /\ UNCHANGED <<bufs, sink, failed, fnCalls, closeCalls, thr, ncalls>>

BackendAddCallerSkip(i, skip) ==
    /\ logs[i].kind \in {"zaplg", "sloglg"}
    /\ Len(logs) < MaxLogs
    /\ logs' = Append(logs, backend_AddCallerSkipLog(logs[i], skip))
    /\ hist' = Append(hist, Asked(hist[i].kvs, hist[i].skip + skip))
    /\ last' = [skip |-> skip] @@ Derived("AddCallerSkip", i, Len(logs) + 1)
    /\ UNCHANGED <<arrays, bufs, sink, failed, fnCalls, closeCalls, thr, ncalls>>

\* NewWith(w, "text", ..., caller = true, addCallerSkip = s) of either adapter.
InitBackend ==
    \E s \in {0, 1} :
        /\ \/ logs = <<zaplg_NewWith(1, "text", TRUE, TRUE, s)>>
           \/ logs = <<sloglg_NewWith(1, "text", TRUE, TRUE, s)>>
        /\ arrays = <<>>
        /\ bufs = << <<>> >>
        /\ sink = <<>>
        /\ failed = FALSE
        /\ fnCalls = 0
        /\ closeCalls = 0
        /\ thr = [t \in Threads |-> Idle]
        /\ ncalls = 0
        /\ hist = <<Asked(<<>>, s)>>
        /\ last = NoOp

NextBackend ==
    \/ \E i \in 1..Len(logs), key \in Keys, val \in Vals : BackendWith(i, key, val)
    \/ \E i \in 1..Len(logs), skip \in Skips : BackendAddCallerSkip(i, skip)

SpecBackend == InitBackend /\ [][NextBackend]_vars

\* The caller skip in force when the Log emits: that of its zap logger, or
\* the addCallerSkip that Log.Error adds to its depth.
EffectiveSkip(l) == IF l.kind = "zaplg" THEN l.z.skip ELSE l.addCallerSkip

\* The fields the Log adds to every entry.
FieldsOf(l) == IF l.kind = "zaplg" THEN l.z.fields ELSE l.h.attrs

\* C23: after any sequence of With and AddCallerSkip calls, the caller skip
\* of the derived Log is the skip given at construction plus the sum of the
\* AddCallerSkip arguments.
C23_SkipIsCarried ==
    \A i \in 1..Len(logs) : EffectiveSkip(logs[i]) = hist[i].skip

\* C23 witness: a sloglg Log built with skip 1, then With: the Log returned
\* has skip 0.
C23_Witness ==
    /\ Len(logs) >= 2
    /\ logs[1].kind = "sloglg"
    /\ hist[1].skip = 1
    /\ last.op = "With" /\ last.recv = 1
    /\ EffectiveSkip(logs[last.ret]) = 0

\* What C23 says, for zaplg, on both branches of With: this part holds.
C23_ZaplgSkipIsCarried ==
    \A i \in 1..Len(logs) :
        logs[i].kind = "zaplg" =>
            /\ EffectiveSkip(logs[i]) = hist[i].skip
            /\ logs[i].callerSkip + logs[i].proto.skip = hist[i].skip

\* C24: AddCallerSkip(n) returns a new Log whose caller skip is the
\* receiver's plus n and whose fields are the receiver's, and every Log that
\* existed, the receiver included, keeps its skip and its fields.
C24_AddCallerSkipFrame ==
    [][last'.op = "AddCallerSkip" =>
          /\ last'.ret = Len(logs) + 1
          /\ Len(logs') = Len(logs) + 1
          /\ EffectiveSkip(logs'[Len(logs')]) = EffectiveSkip(logs[last'.recv]) + last'.skip
          /\ FieldsOf(logs'[Len(logs')]) = FieldsOf(logs[last'.recv])
          /\ logs'[Len(logs')].kind = "zaplg" =>
                Slice(arrays', logs'[Len(logs')].kvs) = Slice(arrays, logs[last'.recv].kvs)
          /\ \A i \in 1..Len(logs) : logs'[i] = logs[i]
          /\ arrays' = arrays]_vars

\* C24 witness: AddCallerSkip(2) on a Log that has a field returned a Log
\* with that field and two more units of skip.
C24_Witness ==
    /\ last.op = "AddCallerSkip"
    /\ last.skip = 2
    /\ FieldsOf(logs[last.recv]) # <<>>
    /\ FieldsOf(logs[last.ret]) = FieldsOf(logs[last.recv])
    /\ EffectiveSkip(logs[last.ret]) = EffectiveSkip(logs[last.recv]) + 2

\* C25: in sloglg, With for a key the Log already has replaces the value at
\* the key's position: the attributes hold each key once, in order of first
\* insertion, with the latest value.
C25_SloglgWithReplaces ==
    \A i \in 1..Len(logs) :
        logs[i].kind = "sloglg" => logs[i].h.attrs = ExpectedFields(hist[i].kvs)

\* C25 witness: a sloglg Log after With(k1, v1) and With(k1, v2) has both
\* attributes.
C25_Witness ==
    \E i \in 1..Len(logs) :
        /\ logs[i].kind = "sloglg"
        /\ hist[i].kvs = <<keyVal("k1", "v1"), keyVal("k1", "v2")>>
        /\ logs[i].h.attrs = <<keyVal("k1", "v1"), keyVal("k1", "v2")>>

\* What remains of C25: for keys the Log does not have yet, sloglg With adds
\* the attribute at the end.
C25_SloglgWithAppends ==
    \A i \in 1..Len(logs) :
        logs[i].kind = "sloglg" => logs[i].h.attrs = hist[i].kvs

----------------------------------------------------------------------------
(* testlg: a callback that logs through the Log it was passed to.  One
   goroutine: thr["t1"] is the frame of WarnIfFuncError or WarnIfCloseError,
   thr["t2"] the frame of the method the callback calls. *)

\* func() error and io.Closer values whose body logs the messages of logs
\* with l.Debug before it returns ret.
Callbacks ==
    {nil} \cup {[nil |-> FALSE, ret |-> e, logs |-> ms] :
                    e \in Errs \cup {nil}, ms \in {<<>>} \cup {<<m>> : m \in Msgs}}

\* Mutant of afterNilCheck: the mutex is taken before the callback is called.
afterNilCheck_lock(m) == "lock"

\* The statement after "if fn == nil { return }": err := fn(), or
\* err := c.Close().
afterNilCheck(m) == "callback"

ReentStart(i, m, cb) ==
    /\ thr["t1"].pc = "idle" /\ thr["t2"].pc = "idle"
    /\ logs[i].kind = "testlg"
    /\ ncalls + 1 + (IF cb.nil THEN 0 ELSE Len(cb.logs)) <= MaxCalls
    /\ ncalls' = ncalls + 1
    /\ IF cb.nil
       THEN /\ last' = Returned(m, i, ncalls + 1, TRUE, nil, <<>>, <<>>,
                                bufs[logs[i].buf], 0, 0)
            /\ UNCHANGED thr
       ELSE /\ thr' = [thr EXCEPT !["t1"] =
                        [cb |-> cb, ran |-> FALSE, inner |-> 0] @@
                        [Started(i, m, <<>>, nil, ncalls + 1) EXCEPT !.pc = afterNilCheck(m)]]
            /\ UNCHANGED last
    /\ UNCHANGED <<logs, arrays, bufs, sink, failed, fnCalls, closeCalls, hist>>

\* The body of the callback calls l.Debug(msg) on the same Log.
ReentCall ==
    /\ thr["t1"].pc = "callback"
    /\ thr["t2"].pc = "idle"
    /\ thr["t1"].inner < Len(thr["t1"].cb.logs)
    /\ thr' = [thr EXCEPT !["t2"] = Started(thr["t1"].l, "Debug",
                                            thr["t1"].cb.logs[thr["t1"].inner + 1],
                                            nil, ncalls + 1),
                          !["t1"].inner = @ + 1]
    /\ ncalls' = ncalls + 1
    /\ UNCHANGED <<logs, arrays, bufs, sink, failed, fnCalls, closeCalls, hist, last>>

\* The callback returns: "if err == nil { return }", else on to the lock.
ReentRet ==
    /\ thr["t1"].pc = "callback"
    /\ thr["t2"].pc = "idle"
    /\ thr["t1"].inner = Len(thr["t1"].cb.logs)
    /\ LET f == thr["t1"]
           isFn == f.m = "WarnIfFuncError"
           held == logs[f.l].mu = "t1"
           ret == f.cb.ret
       IN  /\ fnCalls' = fnCalls + (IF isFn THEN 1 ELSE 0)
           /\ closeCalls' = closeCalls + (IF isFn THEN 0 ELSE 1)
           /\ IF ret.nil /\ ~held
              THEN /\ thr' = [thr EXCEPT !["t1"] = Idle]
                   /\ last' = Returned(f.m, f.l, f.call, FALSE, nil, <<>>, <<>>,
                                       bufs[logs[f.l].buf],
                                       IF isFn THEN 1 ELSE 0, IF isFn THEN 0 ELSE 1)
              ELSE /\ thr' = [thr EXCEPT !["t1"] =
                               [f EXCEPT !.ran = TRUE,
                                         !.fn = IF isFn THEN 1 ELSE 0,
                                         !.close = IF isFn THEN 0 ELSE 1,
                                         !.err = ret,
                                         !.msg = IF ret.nil THEN <<>> ELSE ret.msg,
                                         !.pc = IF ret.nil THEN "unlock"
                                                ELSE IF held THEN "emit" ELSE "lock"]]
                   /\ UNCHANGED last
    /\ UNCHANGED <<logs, arrays, bufs, sink, failed, ncalls, hist>>

\* l.mu.Lock() of either frame.
ReentLock(t) ==
    /\ thr[t].pc = "lock"
    /\ canLock(logs[thr[t].l])
    /\ logs' = [logs EXCEPT ![thr[t].l].mu = t]
    /\ thr' = [thr EXCEPT ![t].pc = IF t = "t1" /\ ~thr[t].ran THEN "callback" ELSE "emit"]
    /\ UNCHANGED <<arrays, bufs, sink, failed, fnCalls, closeCalls, ncalls, hist, last>>

InitReent ==
    \E root \in {testlg_NewWith("zaplg.TestingFactoryFn", 1),
                  testlg_NewWithV1("zaplg.TestingFactoryFn", 1)} : InitRoot(root)

NextReent ==
    \/ \E i \in 1..Len(logs), m \in {"WarnIfFuncError", "WarnIfCloseError"},
          cb \in Callbacks : ReentStart(i, m, cb)
    \/ ReentCall
    \/ ReentRet
    \/ \E t \in Threads : ReentLock(t)
    \/ \E t \in Threads : TestlgEmit(t)
    \/ \E t \in Threads : TestlgDrain(t)
    \/ \E t \in Threads : TestlgForward(t)
    \/ \E t \in Threads : TestlgUnlock(t)

\* The goroutine runs on while it has a statement to execute.
SpecReent == InitReent /\ [][NextReent]_vars /\ WF_vars(NextReent)

\* WarnIfFuncError or WarnIfCloseError has forwarded its WARN entry, and its
\* callback had logged.
WarnedAfterCallbackLogged ==
    /\ thr["t1"].pc = "unlock"
    /\ thr["t1"].fwd # <<>>
    /\ thr["t1"].cb.logs # <<>>

\* C26: testlg's WarnIfFuncError and WarnIfCloseError call fn / Close before
\* they take the mutex: a callback that logs through the same Log finds the
\* mutex free, the call returns, and the callback's entry is in the sink
\* just before the WARN entry for the error the callback returned.
C26_CallbackMayLog ==
    /\ [](\A t \in Threads : thr[t].pc = "lock" => logs[thr[t].l].mu = "free")
    /\ [](thr["t1"].pc = "callback" => logs[thr["t1"].l].mu # "t1")
    /\ (thr["t1"].pc # "idle") ~> (thr["t1"].pc = "idle")
    /\ [](WarnedAfterCallbackLogged =>
            LET n == Len(sink)
                l == logs[thr["t1"].l]
            IN  /\ n >= 2
                /\ sink[n] = thr["t1"].fwd[1]
                /\ sink[n].call = thr["t1"].call
                /\ sink[n].text = stripNewLineEnding(
                        testlg_line(l, thr["t1"].m, thr["t1"].err.msg).bytes)
                /\ sink[n - 1].call = thr["t1"].call + 1
                /\ sink[n - 1].m = "Debug"
                /\ sink[n - 1].text = stripNewLineEnding(
                        testlg_line(l, "Debug", thr["t1"].cb.logs[1]).bytes))

\* C26 witness: WarnIfCloseError has forwarded the WARN entry for the error
\* of a Close that logged with l.Debug, and the sink holds both entries.
C26_Witness ==
    /\ WarnedAfterCallbackLogged
    /\ thr["t1"].m = "WarnIfCloseError"
    /\ Len(sink) >= 2
    /\ sink[Len(sink) - 1].m = "Debug"
    /\ sink[Len(sink)].m = "WarnIfCloseError"

----------------------------------------------------------------------------
(* Concurrent updates of the filter of the legacy package *)

\* Every call has returned, and the two that returned last are a Levels
\* call and the switch call sw (Enable or Disable).
LastTwoAre(sw) ==
    /\ \A t \in Threads : thr[t].pc = "idle"
    /\ Len(hist) >= 2
    /\ {hist[Len(hist) - 1].op, hist[Len(hist)].op} = {"Levels", sw}

\* The two calls that returned last ran at the same time: the one that
\* began later began while the other was running.
LastTwoOverlapped ==
    LET a == hist[Len(hist) - 1]
        b == hist[Len(hist)]
    IN  IF a.call > b.call THEN a.conc ELSE b.conc

\* The level list of the Levels call among the two that returned last.
LastLevels ==
    IF hist[Len(hist)].op = "Levels" THEN hist[Len(hist)].arg ELSE hist[Len(hist) - 1].arg

\* The filter holds exactly the levels of the list, and the enabled bit is on.
FilterIs(levels, on) ==
    /\ bitAnd(logs[1].filter, LevelAll) = orEach(0, levels)
    /\ bitAnd(logs[1].filter, levelEnabled) = (IF on THEN levelEnabled ELSE 0)

\* C27: when Disable (or Enable) runs concurrently with Levels(S), after
\* both have returned logging is disabled (enabled) and the levels of the
\* filter are exactly S.
C27_FilterUpdatesAtomic ==
    /\ (LastTwoAre("Disable") /\ LastTwoOverlapped) => FilterIs(LastLevels, FALSE)
    /\ (LastTwoAre("Enable") /\ LastTwoOverlapped) => FilterIs(LastLevels, TRUE)

\* C27 witness: Disable ran concurrently with Levels(LevelError), both have
\* returned, and the filter still holds every level.
C27_Witness ==
    /\ LastTwoAre("Disable")
    /\ LastTwoOverlapped
    /\ Len(hist) = 2
    /\ LastLevels = <<LevelError>>
    /\ logs[1].filter = LevelAll

\* What remains of C27 when no call runs concurrently with another: the
\* filter is as the two calls that returned last set it.
C27_SequentialUpdates ==
    (\A k \in 1..Len(hist) : ~hist[k].conc) =>
        /\ LastTwoAre("Disable") => FilterIs(LastLevels, FALSE)
        /\ LastTwoAre("Enable") => FilterIs(LastLevels, TRUE)

----------------------------------------------------------------------------
(* The lines of the legacy package in the writers *)

\* b begins with one whole line of log.
BeginsWithLine(b) ==
    /\ Len(b) >= 5
    /\ b[1] \in {"E", "I"} /\ b[2] = "<time>" /\ b[3] = "user"
    /\ b[4] \in {MsgOf(t) : t \in Threads} /\ b[5] = "\n"

\* b is the first part of a line, its second part not written yet.
HalfLine(b) == Len(b) = 2 /\ b[1] \in {"E", "I"} /\ b[2] = "<time>"

\* The number of whole lines of log in b, or -1 when b is not a sequence of
\* whole lines (and of messages that Fatalf printed), with at most a half
\* line at its end.
RECURSIVE LineCount(_)
LineCount(b) ==
    IF b = <<>> \/ HalfLine(b) THEN 0
    ELSE IF BeginsWithLine(b)
    THEN LET n == LineCount(SubSeq(b, 6, Len(b))) IN IF n < 0 THEN -1 ELSE n + 1
    ELSE IF Len(b) >= 2 /\ b[1] \in {MsgOf(t) : t \in Threads} /\ b[2] = "\n"
    THEN LineCount(SubSeq(b, 3, Len(b)))
    ELSE -1

\* The destination log chooses for the level.
destOf(g, level) == IF level = LevelError THEN g.wErr ELSE g.wOut

\* Goroutine t executes a statement in this step.
Steps(t) == thr'[t] # thr[t] \/ (thr[t].pc = "exit" /\ logs'[1].exited = 1)

UseReturned == \E k \in 1..Len(hist) : hist[k].op = "Use"

----------------------------------------------------------------------------
(* The testing factory funcs, called directly and through testlg.NewWith *)

testingFormat == "testing"

TestingFactoryFns == {"zaplg.TestingFactoryFn", "sloglg.TestingFactoryFn"}

\* The call of NewWith inside the factory func panics.
testingFactoryFnPanics(name) ==
    IF name = "sloglg.TestingFactoryFn"
    THEN sloglg_NewWithPanics(testingFormat)
    ELSE zaplg_NewWithPanics(testingFormat)

\* The Log the factory func returns when NewWith returns:
\* NewWith(w, testingFormat, true, true, true, true, 1) in sloglg.
testingFactoryFn(name, w) ==
    IF name = "sloglg.TestingFactoryFn"
    THEN sloglg_NewWith(w, testingFormat, TRUE, TRUE, 1)
    ELSE factoryFn(name, w)

FactoryCalled(op, name, panicked) ==
    [op |-> op, recv |-> 0, call |-> 0, fn |-> name, panicked |-> panicked]

\* TestingFactoryFn(w) on writer 1, as the program's first step.
CallTestingFactoryFn(name) ==
    /\ logs = <<>>
    /\ last.op = "none"
    /\ logs' = IF testingFactoryFnPanics(name) THEN logs ELSE <<testingFactoryFn(name, 1)>>
    /\ last' = FactoryCalled("TestingFactoryFn", name, testingFactoryFnPanics(name))
    /\ UNCHANGED <<arrays, bufs, sink, failed, fnCalls, closeCalls, thr, ncalls, hist>>

\* testlg.NewWith(t, factoryFn): tl.impl = factoryFn(tl.buf); a panic of
\* the factory func leaves NewWith before it returns.
CallTestlgNewWith(name) ==
    /\ logs = <<>>
    /\ last.op = "none"
    /\ logs' = IF testingFactoryFnPanics(name) THEN logs ELSE <<testlg_NewWith(name, 1)>>
    /\ last' = FactoryCalled("testlg.NewWith", name, testingFactoryFnPanics(name))
    /\ UNCHANGED <<arrays, bufs, sink, failed, fnCalls, closeCalls, thr, ncalls, hist>>

NextFactory ==
    \/ \E name \in TestingFactoryFns : CallTestingFactoryFn(name)
    \/ \E name \in TestingFactoryFns : CallTestlgNewWith(name)
    \/ \E format \in Formats, caller \in BOOLEAN :
            last.op = "none" /\ NewWith("sloglg", format, caller)
    \/ \E i \in 1..Len(logs), m \in LeveledMethods, msg \in Msgs : CallLeveled(i, m, msg)
    \/ \E t \in Threads, i \in 1..Len(logs), m \in LeveledMethods, msg \in Msgs :
            TestlgLeveled(t, i, m, msg)
    \/ \E t \in Threads : TestlgLock(t)
    \/ \E t \in Threads : TestlgEmit(t)
    \/ \E t \in Threads : TestlgDrain(t)
    \/ \E t \in Threads : TestlgForward(t)
    \/ \E t \in Threads : TestlgUnlock(t)

SpecFactory == InitFormat /\ [][NextFactory]_vars

\* C28: sloglg.TestingFactoryFn(w) returns a Log, so testlg.NewWith with it
\* returns a testlg Log; and sloglg.NewWith accepts "json", "text" and
\* "testing".
C28_SloglgFactoryConstructs ==
    /\ (last.op = "TestingFactoryFn" /\ last.fn = "sloglg.TestingFactoryFn") =>
            ~last.panicked /\ Len(logs) = 1 /\ logs[1].kind = "sloglg"
    /\ (last.op = "testlg.NewWith" /\ last.fn = "sloglg.TestingFactoryFn") =>
            ~last.panicked /\ Len(logs) = 1 /\ logs[1].kind = "testlg"
    /\ (last.op = "NewWith" /\ last.kind = "sloglg"
            /\ last.format \in {"json", "text", testingFormat}) =>
            ~last.panicked /\ Len(logs) = 1

\* C28 witness: testlg.NewWith(t, sloglg.TestingFactoryFn) panicked and
\* there is no Log.
C28_Witness ==
    /\ last.op = "testlg.NewWith"
    /\ last.fn = "sloglg.TestingFactoryFn"
    /\ last.panicked
    /\ logs = <<>>

\* What remains of C28: sloglg.NewWith accepts "json" and "text", and
\* testlg.NewWith with zaplg's factory func returns a testlg Log.
C28_OtherConstructions ==
    /\ (last.op = "NewWith" /\ last.kind = "sloglg" /\ last.format \in {"json", "text"}) =>
            ~last.panicked /\ Len(logs) = 1 /\ logs[1].kind = "sloglg"
    /\ (last.op = "testlg.NewWith" /\ last.fn = "zaplg.TestingFactoryFn") =>
            ~last.panicked /\ Len(logs) = 1 /\ logs[1].kind = "testlg"

====
